---- MODULE Spec2Model ----
(***************************************************************************)
(* TvDatafeed (src/main.py), the client that fetches historical bars for   *)
(* one symbol over a WebSocket with bounded retries, and DataFetchThread   *)
(* (src/data.py), which fetches a batch of symbols with it.                *)
(*                                                                         *)
(* One TvDatafeed instance is modelled.  get_hist is a state machine whose *)
(* steps are its blocking calls: one step per WebSocket open try, one per  *)
(* handshake send, one per receive, one for the finally clause together    *)
(* with the retry decision that follows it.  The transport is the          *)
(* environment: every open, send and receive may succeed or raise, and a   *)
(* received message may carry any combination of the two terminal markers  *)
(* and of a bar-array payload.                                             *)
(*                                                                         *)
(* Variables marked history record what an attempt did; variables marked   *)
(* observer record what a call did and are driven only by the              *)
(* specification that adds the observer to the program's steps.  No guard  *)
(* of the program reads either kind.                                       *)
(*                                                                         *)
(* The constructor of TvDatafeed (__init__ and __auth) is a second state   *)
(* machine, with one step per login request, and DataFetchThread.run a     *)
(* third, with one step per get_hist call; run takes what get_hist gives   *)
(* it (a frame with rows, an empty frame, an exception) from its           *)
(* environment.  Each has its own specification.                           *)
(***************************************************************************)
EXTENDS Integers, Sequences, FiniteSets, TLC

\* ---------------------------------------------------------------- constants

\* TvDatafeed.__max_retries
max_retries == 3

\* max_messages, the local of get_hist that bounds the read loop
max_messages == 100

\* Number of get_hist calls made on the instance.
MaxCalls == 2

\* Number of WebSocket opens the transport lets succeed over the whole run.
MaxConns == 3

\* The anonymous sentinel: self.token of an instance without a login token
anonymous_token == "unauthorized_user_token"

\* Number of symbols a batch is given.
MaxSymbols == 3

VARIABLE
    token             \* self.token, None until __init__ assigns it

\* Interval.in_daily.value and n_bars, the defaults of get_hist
interval_value == "1D"

n_bars == 10

\* ------------------------------------------------------------------- inputs

\* A symbol is the sequence of its tokens; ":" is the exchange separator.
Symbols == { <<"NIFTY">>, <<"NSE", ":", "NIFTY">> }

\* fut_contract: None, an int, or a value that is neither (here a str).
Contracts ==
    { [kind |-> "none", v |-> 0], [kind |-> "int", v |-> 1], [kind |-> "str", v |-> 0] }

\* exchange, the argument of get_hist that is only printed
Exchanges == { "NSE", "BSE" }

Range(s) == { s[i] : i \in 1..Len(s) }

\* A function on 1..n as the tuple of its values, each computed once
Tuple(f, n) == SubSeq(f, 1, n)

\* The position of e in the duplicate-free list
IndexIn(list, e) == CHOOSE i \in 1..Len(list) : list[i] = e

\* str(contract) as the f-string formats a small int
Str(n) == <<"0", "1", "2", "3", "4", "5", "6", "7", "8", "9">>[n + 1]

\* None, the value of a missing argument and what a failed __auth returns
None == "None"

\* The auth_token of the user in the body of a successful sign-in response
server_token == "auth_token_of_user"

\* What one requests.post of __auth gives: status 200 and a body with the
\* user's auth_token; status 200 and a body whose auth_token is null; status
\* 200 and a body that is not JSON or lacks user or auth_token; another
\* status; or an exception of requests.post itself.
Responses == { "token", "null_token", "malformed", "status", "raises" }

\* max_retries, the parameter of DataFetchThread.__init__, at its default
thread_max_retries == 3

\* The symbols of a batch are distinct strings, named here by the numbers
\* 1..MaxSymbols in their sorting order.
Tickers == 1..MaxSymbols

\* self.symbols as MainWindow.fetch_data passes it: a copy of
\* self.selected_symbols, which update_selected_symbols_from_input has just
\* set to sorted(list(set(symbols))), and not empty (fetch_data returns
\* before it creates the thread otherwise).
SymbolLists ==
    { s \in UNION { [1..n -> Tickers] : n \in 1..MaxSymbols } :
        \A i \in 1..(Len(s) - 1) : s[i] < s[i + 1] }

\* What a get_hist call gives run: a frame with rows, an empty frame, or an
\* exception
FetchResults == { "nonempty", "empty", "raised" }

\* fetchCalls before the first get_hist call of run: for every symbol, no
\* call in pass 1 (the first entry) and none in any retry round
NoFetchCalls == [s \in Tickers |-> [p \in 1..(thread_max_retries + 1) |-> 0]]

\* lastFetch before the first get_hist call of run
NoFetch == [symbol |-> 0, round |-> 0, attempt |-> 0, result |-> "none"]

\* ------------------------------------------------------ __format_symbol

\* TRUE when __format_symbol raises ValueError("Not a valid contract")
format_symbol_raises(symbol, contract) ==
    /\ ":" \notin Range(symbol)
    /\ contract.kind # "none"
    /\ contract.kind # "int"

\* The contract appended whether or not the symbol holds a separator.
format_symbol_suffixed(symbol, contract) ==
    IF contract.kind = "none" THEN symbol
    ELSE symbol \o <<Str(contract.v), "!">>

format_symbol(symbol, contract) ==
    IF ":" \in Range(symbol) THEN symbol
    ELSE IF contract.kind = "none" THEN symbol
    ELSE symbol \o <<Str(contract.v), "!">>

\* ------------------------------------------------------ session ids

\* __generate_session / __generate_chart_session: the prefix and 12 random
\* letters.  The random part is modelled as a fresh draw: n is the number of
\* get_hist calls made before, and each call draws two strings no call drew
\* before, so no two generated ids are equal (the case that has probability
\* about 1 - 26^-12 in the program).
generate_session(n) == [prefix |-> "qs_", rnd |-> 2 * n + 1]

generate_chart_session(n) == [prefix |-> "cs_", rnd |-> 2 * n + 2]

NoSession == [prefix |-> "", rnd |-> 0]

\* ------------------------------------------------------ handshake messages

\* The fixed field list of quote_set_fields
QuoteFields ==
    << "ch", "chp", "current_session", "description", "local_description",
       "language", "exchange", "fractional", "is_tradable", "lp", "lp_time",
       "minmov", "minmove2", "original_name", "pricescale", "pro_name",
       "short_name", "type", "update_mode", "volume", "currency_code", "rchp",
       "rtc" >>

\* Handshake with the two create_session messages in the other order.
HandshakeSwapped(qs, cs, fsym, extended) ==
    << [m |-> "set_auth_token", p |-> <<token>>],
       [m |-> "quote_create_session", p |-> <<qs>>],
       [m |-> "chart_create_session", p |-> <<cs, "">>],
       [m |-> "quote_set_fields", p |-> <<qs>> \o QuoteFields],
       [m |-> "quote_add_symbols",
        p |-> <<qs, fsym, [flags |-> <<"force_permission">>]>>],
       [m |-> "quote_fast_symbols", p |-> <<qs, fsym>>],
       [m |-> "resolve_symbol",
        p |-> <<cs, "symbol_1",
                [symbol |-> fsym, adjustment |-> "splits",
                 session |-> IF extended THEN "extended" ELSE "regular"]>>],
       [m |-> "create_series",
        p |-> <<cs, "s1", "s1", "symbol_1", interval_value, n_bars>>],
       [m |-> "switch_timezone", p |-> <<cs, "exchange">>] >>

\* The nine __send_message calls of one attempt, in program order.  m is the
\* function name, p the parameter list; the JSON-in-string parameter of
\* resolve_symbol is kept as the record it encodes.
Handshake(qs, cs, fsym, extended) ==
    << [m |-> "set_auth_token", p |-> <<token>>],
       [m |-> "chart_create_session", p |-> <<cs, "">>],
       [m |-> "quote_create_session", p |-> <<qs>>],
       [m |-> "quote_set_fields", p |-> <<qs>> \o QuoteFields],
       [m |-> "quote_add_symbols",
        p |-> <<qs, fsym, [flags |-> <<"force_permission">>]>>],
       [m |-> "quote_fast_symbols", p |-> <<qs, fsym>>],
       [m |-> "resolve_symbol",
        p |-> <<cs, "symbol_1",
                [symbol |-> fsym, adjustment |-> "splits",
                 session |-> IF extended THEN "extended" ELSE "regular"]>>],
       [m |-> "create_series",
        p |-> <<cs, "s1", "s1", "symbol_1", interval_value, n_bars>>],
       [m |-> "switch_timezone", p |-> <<cs, "exchange">>] >>

\* ------------------------------------------------------ received text

\* What a received message contributes to the search of __create_df: no bar
\* array, a bar array of well-formed records, one whose first record has
\* fewer than five tokens, or one whose timestamp token is not a number.
Payloads == { "none", "bars", "short_record", "bad_timestamp" }

\* A received message: does it contain "series_completed", does it contain
\* "series_error", and its payload.
Messages == [completed : BOOLEAN, error : BOOLEAN, payload : Payloads]

\* raw_data += result + "\n".  raw_data is kept as what re.search finds in
\* it, the leftmost bar array: once the buffer holds one, later text does not
\* change the match.
Accumulate(raw_data, result) ==
    IF raw_data = "none" THEN result.payload ELSE raw_data

\* The messages that differ in what they do to a buffer: every message
\* while the buffer holds no bar array, and afterwards, when Accumulate
\* leaves the buffer as it is whatever the payload, one payload only.
Receivable(raw_data) ==
    IF raw_data = "none" THEN Messages
    ELSE { result \in Messages : result.payload = "none" }

\* __create_df on the buffer: "nonempty" (a frame with one row per record),
\* "empty" (AttributeError of a failed search or IndexError of a short record,
\* both caught, pd.DataFrame() returned), or "ValueError" (float() of the
\* timestamp token, which the except clause of __create_df does not catch).
create_df(raw_data) ==
    CASE raw_data = "bars" -> "nonempty"
      [] raw_data = "none" -> "empty"
      [] raw_data = "short_record" -> "empty"
      [] raw_data = "bad_timestamp" -> "ValueError"

\* extended_session, the default of get_hist
extended_session == FALSE

\* ------------------------------------------------------ __create_df, the text

\* Number of bar records in a bar array.
MaxRecords == 3

\* Number of __create_df calls followed.
MaxParses == 2

\* A text is the sequence of its lexemes: the punctuation characters { } [ ]
\* : , each on its own, the end of a line, and between them keys (written
\* without their quotes) and values.
NL == "\n"

\* float() of a value lexeme, for the lexemes that are numbers
FloatTable ==
    ("0" :> 0) @@ ("1" :> 1) @@ ("2" :> 2) @@ ("3" :> 3) @@ ("4" :> 4)
      @@ ("7" :> 7) @@ ("9" :> 9) @@ ("100" :> 100) @@ ("200" :> 200)

\* The value lists of the records a bar array is built of: timestamp, open,
\* high, low, close, volume.  Two well-formed records, one without the
\* volume value, one whose volume, one whose close and one whose timestamp
\* is not a number, and (the empty list) a record without its "v" list.
RecordValues ==
    { <<"100", "1", "2", "3", "4", "7">>,
      <<"200", "4", "3", "2", "1", "9">>,
      <<"100", "1", "2", "3", "4">>,
      <<"100", "1", "2", "3", "4", "x">>,
      <<"100", "1", "2", "3", "x", "7">>,
      <<"x", "1", "2", "3", "4", "7">>,
      <<>> }

\* The values separated by commas
RECURSIVE Commas(_)
Commas(values) ==
    IF Len(values) <= 1 THEN values
    ELSE <<values[1], ",">> \o Commas(Tail(values))

\* The text of record number i (from 0) of a bar array: {"i":i,"v":[...]}
RecordText(values, i) ==
    IF values = <<>> THEN <<"{", "i", ":", Str(i), "}">>
    ELSE <<"{", "i", ":", Str(i), ",", "v", ":", "[">> \o Commas(values)
           \o <<"]", "}">>

\* The records of a bar array from number i on, separated by commas
RECURSIVE ArrayText(_, _)
ArrayText(records, i) ==
    IF i >= Len(records) THEN <<>>
    ELSE (IF i = 0 THEN <<>> ELSE <<",">>) \o RecordText(records[i + 1], i)
           \o ArrayText(records, i + 1)

\* One received message that carries the bar array, and the end of its line
\* in raw_data: {"s1":{"s":[...],"ns":{}}}
BarMessage(records) ==
    <<"{", "s1", ":", "{", "s", ":", "[">> \o ArrayText(records, 0)
      \o <<"]", ",", "ns", ":", "{", "}", "}", "}", NL>>

BarArrays == UNION { [1..n -> RecordValues] : n \in 1..MaxRecords }

\* Texts the search of __create_df finds no bar array in: the empty text, a
\* message without one, an empty array, an array whose end is on another
\* line, and a key that only ends in s.
UnmatchedTexts ==
    { <<>>,
      <<"{", "m", ":", "series_completed", "}", NL>>,
      <<"{", "s", ":", "[", "]", "}", NL>>,
      <<"{", "s", ":", "[", "{", "i", ":", "0", NL, "}", "]", "}", NL>>,
      <<"{", "ns", ":", "[", "{", "i", ":", "0", "}", "]", "}", NL>> }

\* The raw_data arguments of __create_df
Texts == { BarMessage(records) : records \in BarArrays } \cup UnmatchedTexts

\* ------------------------------------------------------ __create_df

\* re.search('"s":\[(.+?)\}\]', raw_data): the places where "s":[ stands,
\* and for such a place the places where a }] stands that is at least one
\* lexeme further on the same line (. matches no end of line)
Starts(text) ==
    { i \in 1..(Len(text) - 2) :
        text[i] = "s" /\ text[i + 1] = ":" /\ text[i + 2] = "[" }

Ends(text, i) ==
    { j \in (i + 4)..(Len(text) - 1) :
        /\ text[j] = "}"
        /\ text[j + 1] = "]"
        /\ \A k \in (i + 3)..(j - 1) : text[k] # NL }

Least(S) == CHOOSE m \in S : \A n \in S : m <= n

\* .group(1) of the leftmost match, the group as short as it can be; None
\* when there is no match
search(text) ==
    LET matching == { i \in Starts(text) : Ends(text, i) # {} }
    IN IF matching = {} THEN None
       ELSE LET i == Least(matching)
            IN SubSeq(text, i + 3, Least(Ends(text, i)) - 1)

\* text without the separators that stand at the places cuts, each w
\* lexemes wide: the pieces between them, in order
SplitAt(text, cuts, w) ==
    LET cut(k) == CHOOSE c \in cuts : Cardinality({ d \in cuts : d < c }) = k - 1
        first(k) == IF k = 1 THEN 1 ELSE cut(k - 1) + w
        last(k) == IF k = Cardinality(cuts) + 1 THEN Len(text) ELSE cut(k) - 1
    IN Tuple([k \in 1..(Cardinality(cuts) + 1) |-> SubSeq(text, first(k), last(k))],
             Cardinality(cuts) + 1)

\* out.split(',{"'): the separator is a comma, a brace and the quote that
\* opens the key after it
split(out) ==
    SplitAt(out, { i \in 1..(Len(out) - 1) : out[i] = "," /\ out[i + 1] = "{" }, 2)

\* re.split("\[|:|,|\]", xi): a token is what stands between two separators
re_split(chunk) ==
    SplitAt(chunk, { i \in 1..Len(chunk) : chunk[i] \in {"[", ":", ",", "]"} }, 1)

\* float(token) raises ValueError unless the token is one number
is_float(tok) == Len(tok) = 1 /\ tok[1] \in DOMAIN FloatTable

to_float(tok) == FloatTable[tok[1]]

\* xi[i], with Python's index from 0
Has(xi, i) == i + 1 <= Len(xi)

At(xi, i) == xi[i + 1]

\* The volume parsed again for every record.
SkipsVolumeNever(volume_data, i) == FALSE

\* if not volume_data and i == 9: row.append(0.0); continue
SkipsVolume(volume_data, i) == ~volume_data /\ i = 9

\* row.append(float(xi[i])) with its except (ValueError, IndexError):
\* row.append(0.0)
Field(xi, i, volume_data) ==
    IF SkipsVolume(volume_data, i) THEN 0
    ELSE IF Has(xi, i) /\ is_float(At(xi, i)) THEN to_float(At(xi, i))
    ELSE 0

\* datetime.datetime.fromtimestamp(t)
fromtimestamp(t) == [timestamp |-> t]

\* One iteration of the for loop of __create_df on the tokens xi: the
\* exception that ends it, or the row and the volume_data it leaves
Row(xi, volume_data) ==
    IF ~Has(xi, 4) THEN [error |-> "IndexError"]
    ELSE IF ~is_float(At(xi, 4)) THEN [error |-> "ValueError"]
    ELSE [error |-> "none",
          row |-> [datetime |-> fromtimestamp(to_float(At(xi, 4))),
                   open |-> Field(xi, 5, volume_data),
                   high |-> Field(xi, 6, volume_data),
                   low |-> Field(xi, 7, volume_data),
                   close |-> Field(xi, 8, volume_data),
                   volume |-> Field(xi, 9, volume_data)],
          volume_data |->
              /\ volume_data
              /\ Has(xi, 9)
              /\ is_float(At(xi, 9))]

\* The except clause without AttributeError.
CaughtIndexErrorOnly(e) == e = "IndexError"

\* except (AttributeError, IndexError) of __create_df
Caught(e) == e \in {"AttributeError", "IndexError"}

\* pd.DataFrame()
EmptyFrame == <<>>

\* The rows newest first.
FrameReversed(data, symbol) ==
    [k \in 1..Len(data) |->
        [symbol |-> symbol, datetime |-> data[Len(data) + 1 - k].datetime,
         open |-> data[Len(data) + 1 - k].open,
         high |-> data[Len(data) + 1 - k].high,
         low |-> data[Len(data) + 1 - k].low,
         close |-> data[Len(data) + 1 - k].close,
         volume |-> data[Len(data) + 1 - k].volume]]

\* pd.DataFrame(data, columns=[...]).set_index("datetime") and
\* data.insert(0, "symbol", value=symbol): the rows as they are, in their
\* order, each with the symbol
Frame(data, symbol) ==
    [k \in 1..Len(data) |->
        [symbol |-> symbol, datetime |-> data[k].datetime, open |-> data[k].open,
         high |-> data[k].high, low |-> data[k].low, close |-> data[k].close,
         volume |-> data[k].volume]]

\* What __create_df gives when an exception e ends it
Ended(e) ==
    IF Caught(e) THEN [raised |-> "none", frame |-> EmptyFrame]
    ELSE [raised |-> e, frame |-> EmptyFrame]

\* parsed while __create_df has given nothing
NotParsed == [raised |-> "none", frame |-> EmptyFrame]

\* The for loop of __create_df from the chunk after the rows made so far,
\* and what follows it
RECURSIVE Loop(_, _, _, _)
Loop(chunks, rows, flag, symbol) ==
    IF Len(rows) = Len(chunks)
    THEN [raised |-> "none", frame |-> Frame(rows, symbol)]
    ELSE LET r == Row(re_split(chunks[Len(rows) + 1]), flag)
         IN IF r.error = "none"
            THEN Loop(chunks, Append(rows, r.row), r.volume_data, symbol)
            ELSE Ended(r.error)

\* __create_df(raw_data, symbol) as one function
create_df_text(text, symbol) ==
    IF search(text) = None THEN Ended("AttributeError")
    ELSE Loop(split(search(text)), <<>>, TRUE, symbol)

\* The well-formed records, and the bar arrays made of them: in any order,
\* with repetitions
WellFormedValues ==
    { values \in RecordValues :
        Len(values) = 6 /\ \A i \in 1..6 : values[i] \in DOMAIN FloatTable }

WellFormedArrays == UNION { [1..n -> WellFormedValues] : n \in 1..MaxRecords }

\* raw_data when series_completed has been received after the bar array:
\* a line before the message of the array, and the line that completes
StreamText(records) ==
    <<"{", "m", ":", "qsd", "}", NL>> \o BarMessage(records)
      \o <<"{", "m", ":", "series_completed", "}", NL>>

\* ------------------------------------------------------ float arithmetic

\* A Python float is an IEEE 754 binary64 with 53 significant bits.
significand_bits == 53

\* A positive float is the record [m, e]: m its significant bits, the most
\* significant (a 1) first, and e the exponent of that first bit, so that
\* its value is the sum of m[i] * 2^(e + 1 - i).
Zeros(n) == [i \in 1..n |-> 0]

\* The binary digits of a positive int, most significant first
RECURSIVE Binary(_)
Binary(v) == IF v = 0 THEN <<>> ELSE Append(Binary(v \div 2), v % 2)

\* The int a sequence of binary digits denotes
RECURSIVE Value(_)
Value(bits) ==
    IF bits = <<>> THEN 0
    ELSE 2 * Value(SubSeq(bits, 1, Len(bits) - 1)) + bits[Len(bits)]

\* bits + 1 in the same width, and the carry out of it: a digit changes
\* when every digit below it is a 1
Increment(bits) ==
    LET ones(i) == \A l \in (i + 1)..Len(bits) : bits[l] = 1
    IN [bits |-> Tuple([i \in 1..Len(bits) |->
                           IF ones(i) THEN 1 - bits[i] ELSE bits[i]], Len(bits)),
        carry |-> IF ones(0) THEN 1 ELSE 0]

\* Rounding to nearest, ties to even: bits are the leading digits of the
\* exact value (53 or more, the first a 1), e the exponent of the first, and
\* tail says that some digit beyond bits is a 1.
RoundToFloat(bits, e, tail) ==
    LET kept == SubSeq(bits, 1, significand_bits)
        guard == IF Len(bits) > significand_bits
                 THEN bits[significand_bits + 1] ELSE 0
        sticky == tail \/ \E i \in (significand_bits + 2)..Len(bits) : bits[i] = 1
        up == guard = 1 /\ (sticky \/ kept[significand_bits] = 1)
        inc == Increment(kept)
    IN IF ~up THEN [m |-> kept, e |-> e]
       ELSE IF inc.carry = 1
       THEN [m |-> <<1>> \o Zeros(significand_bits - 1), e |-> e + 1]
       ELSE [m |-> inc.bits, e |-> e]

\* float(v) of a small positive int, which is exact
from_int(v) ==
    [m |-> Binary(v) \o Zeros(significand_bits - Len(Binary(v))),
     e |-> Len(Binary(v)) - 1]

\* The binary expansion of r / n for 0 < r < n by long division, from its
\* first 1 on: 54 digits, the exponent of the first, and the remainder left.
RECURSIVE LongDivision(_, _, _, _)
LongDivision(r, n, bits, e) ==
    IF Len(bits) = significand_bits + 1 THEN [bits |-> bits, e |-> e, rem |-> r]
    ELSE LET b == IF 2 * r >= n THEN 1 ELSE 0
             r2 == 2 * r - b * n
         IN IF bits = <<>> /\ b = 0
            THEN LongDivision(r2, n, bits, e - 1)
            ELSE LongDivision(r2, n, Append(bits, b), e)

\* k / n of two ints with 0 < k <= n: the correctly rounded quotient
true_div(k, n) ==
    IF k = n THEN from_int(1)
    ELSE LET d == LongDivision(k, n, <<>>, -1)
         IN RoundToFloat(d.bits, d.e, d.rem # 0)

\* The digit of weight 2^p of a significand (p = 0 is its last digit)
Digit(xm, p) == IF p < Len(xm) THEN xm[Len(xm) - p] ELSE 0

\* The significand in base 256: its j-th limb, j = 0 the least significant
Limb(xm, j) ==
    Digit(xm, 8 * j) + 2 * Digit(xm, 8 * j + 1) + 4 * Digit(xm, 8 * j + 2)
      + 8 * Digit(xm, 8 * j + 3) + 16 * Digit(xm, 8 * j + 4)
      + 32 * Digit(xm, 8 * j + 5) + 64 * Digit(xm, 8 * j + 6)
      + 128 * Digit(xm, 8 * j + 7)

\* Schoolbook multiplication of two significands of seven limbs: the sum of
\* the limb products of weight 256^c
Term(xm, ym, i, c) ==
    IF c - i \in 0..6 THEN Limb(xm, i) * Limb(ym, c - i) ELSE 0

Column(xm, ym, c) ==
    Term(xm, ym, 0, c) + Term(xm, ym, 1, c) + Term(xm, ym, 2, c)
      + Term(xm, ym, 3, c) + Term(xm, ym, 4, c) + Term(xm, ym, 5, c)
      + Term(xm, ym, 6, c)

\* The columns with the carry of the columns below: cols[c + 1] is column c
RECURSIVE Carried(_, _)
Carried(cols, c) ==
    IF c = 0 THEN cols[1]
    ELSE cols[c + 1] + Carried(cols, c - 1) \div 256

\* The exact product of two significands, in 106 digits
Product(xm, ym) ==
    LET cols == Tuple([c \in 1..14 |-> Column(xm, ym, c - 1)], 14)
        limbs == Tuple([c \in 1..14 |-> Carried(cols, c - 1) % 256], 14)
        weight == <<1, 2, 4, 8, 16, 32, 64, 128>>
        digit(p) == (limbs[(p \div 8) + 1] \div weight[(p % 8) + 1]) % 2
    IN Tuple([q \in 1..(2 * significand_bits) |-> digit(2 * significand_bits - q)],
             2 * significand_bits)

\* x * y of two positive floats
float_mul(x, y) ==
    LET p == Product(x.m, y.m)
    IN IF p[1] = 1 THEN RoundToFloat(p, x.e + y.e + 1, FALSE)
       ELSE RoundToFloat(Tail(p), x.e + y.e, FALSE)

\* int(x) of a positive float below 2^53: truncation
to_int(x) == IF x.e < 0 THEN 0 ELSE Value(SubSeq(x.m, 1, x.e + 1))

\* ------------------------------------------------------------------- state

VARIABLES
    pc,               \* where get_hist stands: idle, connect, send, recv, finally, done
    calls,            \* get_hist calls started on the instance
    formatted_symbol, \* local of get_hist
    session,          \* local of get_hist: the quote-session id
    chart_session,    \* local of get_hist: the chart-session id
    attempt,          \* loop variable of get_hist
    tryNo,            \* loop variable of __create_connection
    ws,               \* self.ws: the connection it refers to, 0 while unset
    conns,            \* the transport: conns[c] = open, closed, or closed_again
                      \* (close was invoked on it when it was closed already)
    sent,             \* messages sent in this attempt, in order
    message_count,    \* local of get_hist
    raw_data,         \* local of get_hist
    outcome,          \* what the call gave its caller: none yet, nonempty, empty, raised
    attemptConn,      \* history: the connection this attempt opened, 0 if none
    lastResult,       \* history: markers of the last message received in this attempt
    attemptEnd,       \* history: why the body of this attempt ended
    logged,           \* history: an error or warning was logged in this attempt
    opens,            \* observer: create_connection calls made by this get_hist call
    everyOpenFailed,  \* observer: none of them succeeded
    everyAttemptLogged,   \* observer: logged held at the end of every attempt of the call
    everyAnswerError,     \* observer: every attempt ended on a message with series_error
    everyAnswerErrorOnly, \* observer: ... with series_error and without series_completed
    idUses,           \* observer: idUses[id] = attempts that sent id in a create_session
    recvs,            \* observer: receives issued in this attempt
    stopped,          \* observer: a terminal marker was received or a receive raised
    openTries,        \* observer: create_connection calls of this __create_connection
    openSleeps,       \* observer: time.sleep calls of this __create_connection
    attemptSleeps,    \* observer: time.sleep calls of this get_hist call, in
                      \* its attempt loop
    stream,           \* observer: the records of the bar array that was parsed
    frame             \* observer: the frame __create_df made of them

\* TvDatafeed.__init__ and __auth
VARIABLES
    apc,              \* where the constructor stands: new, auth, constructed
    credentials,      \* the username and password arguments: is each one given
    auth_attempt,     \* loop variable of __auth
    login_requests,   \* history: requests.post calls made by __auth
    lastResponse      \* history: what the last requests.post gave

\* DataFetchThread
VARIABLES
    symbols,          \* self.symbols
    percentages,      \* int(((idx + 1) / total_symbols) * 100) for each idx of
                      \* the batch, worked out when the batch is known
    rpc,              \* where run stands: created, pass1, while, round, finished
    results,          \* local of run: symbol -> the frame stored, named by the
                      \* pass whose fetch returned it (0 is pass 1)
    failed_symbols,   \* local of run
    new_failed,       \* local of run
    idx,              \* loop variable of pass 1: symbols processed so far
    pos,              \* the for loop of a retry round: symbols processed so far
    fetch_attempt,    \* the attempt loop variable of run
    retry_round,      \* local of run, 0 until line 212 sets it
    signals,          \* data_fetched and error emissions, in order
    progress,         \* progress emissions, in order
    lastFetch,        \* history: the last get_hist call of run and its result
    framed,           \* history: symbol -> the pass in which a get_hist call
                      \* first returned a non-empty frame for it
    slept,            \* history: time.sleep ran since the last get_hist returned
    passFetched,      \* history: the symbols fetched in this pass, in order
    pending,          \* history: the list this pass iterates over
    firstFailed,      \* history: symbols in the order their pass 1 failed
    fetchCalls,       \* observer: symbol -> the get_hist calls run made for
                      \* it in pass 1 and in each retry round
    interruptionRequested  \* QThread's flag, set by requestInterruption()

\* Pass 1 of DataFetchThread.run as far as its progress values go
VARIABLES
    total_symbols,     \* local of run
    processed_symbols, \* symbols whose attempts are over (idx + 1 in data.py,
                       \* processed_symbols in test.py)
    emitted            \* progress emissions, in order

\* TvDatafeed.__create_df
VARIABLES
    dfpc,             \* where __create_df stands: idle, loop, returned
    create_df_args,   \* its arguments raw_data and symbol
    x,                \* local of __create_df: the chunks of the bar array
    data,             \* local of __create_df: the rows
    volume_data,      \* local of __create_df
    parsed,           \* what the call gave: the exception raised, the frame
    parses,           \* __create_df calls made
    volumeLost        \* history: an earlier call ended with volume_data False

\* TvDatafeed.__create_message
VARIABLES
    cmpc,             \* where __create_message stands: idle, constructed, framed
    message_args,     \* its arguments func and param_list
    st,               \* the text __construct_message returned
    packet            \* the text __prepend_header returned

\* TvDatafeed.__generate_session and __generate_chart_session
VARIABLES
    gpc,              \* where the generator stands: idle, joining, returned
    generator,        \* which of the two runs, named by its prefix
    random_string,    \* local: the letters joined so far
    generated         \* the id it returned

\* DataFetchThread.run of data.py and of test.py, one beside the other
VARIABLES
    given_max_retries, \* the max_retries argument, the same for both threads
    batch,            \* the symbols argument, the same for both threads
    dataRun,          \* run of data.py: its position, its locals, its calls
    testRun           \* run of test.py: its position, its locals, its calls

\* MainWindow
VARIABLES
    enabled,          \* the widgets whose isEnabled() is true, by name
    progress_bar,     \* progress_bar.isVisible()
    currentText,      \* exchange_combo.currentText()
    symbol_cache,     \* self.symbol_cache: exchange -> the list stored, named
                      \* by the exchange get_symbols fetched it for
    symbol_threads,   \* the SymbolFetchThreads started whose run has not
                      \* emitted yet, each named by its self.exchange
    fetch_threads,    \* the DataFetchThreads started whose finished signal
                      \* has not been handled: running, or returned from run
    df_dict           \* self.df_dict holds a frame

\* TvDatafeed.get_multiple_hist
VARIABLES
    mhpc,             \* where get_multiple_hist stands: idle, loop, returned,
                      \* raised
    multiple_args,    \* its arguments symbols and fut_contract
    multiple_results, \* local results: symbol -> the frame stored
    multiple_calls    \* history: its get_hist calls, each with the symbol
                      \* passed and the frame returned

callVars == <<calls, formatted_symbol, session, chart_session, outcome>>

attemptVars == <<attempt, tryNo, sent, message_count, raw_data>>

transportVars == <<ws, conns>>

historyVars == <<attemptConn, lastResult, attemptEnd, logged>>

opensVars == <<opens, everyOpenFailed>>

answerVars == <<everyAttemptLogged, everyAnswerError, everyAnswerErrorOnly>>

readVars == <<recvs, stopped>>

connectVars == <<openTries, openSleeps>>

\* The observers of one specification each, which every other leaves alone
frameVars == <<stream, frame>>

sleepVars == <<attemptSleeps>>

traceVars == <<connectVars, frameVars, sleepVars>>

observerVars == <<opensVars, answerVars, idUses, readVars, traceVars>>

authVars == <<apc, credentials, auth_attempt, login_requests, lastResponse>>

runVars ==
    <<symbols, percentages, rpc, results, failed_symbols, new_failed, idx, pos,
      fetch_attempt, retry_round, signals, progress>>

runHistoryVars == <<lastFetch, framed, slept, passFetched, pending, firstFailed>>

progressVars == <<total_symbols, processed_symbols, emitted>>

\* The observer of the get_hist calls of run
countVars == <<fetchCalls>>

threadVars ==
    <<runVars, runHistoryVars, interruptionRequested, progressVars, countVars>>

parseVars ==
    <<dfpc, create_df_args, x, data, volume_data, parsed, parses, volumeLost>>

\* The functions of TvDatafeed that are followed on their own
codecVars == <<cmpc, message_args, st, packet>>

sessionVars == <<gpc, generator, random_string, generated>>

variantVars == <<given_max_retries, batch, dataRun, testRun>>

\* The parts of the program followed beside it
windowVars ==
    <<enabled, progress_bar, currentText, symbol_cache, symbol_threads,
      fetch_threads, df_dict>>

multipleVars == <<mhpc, multiple_args, multiple_results, multiple_calls>>

besideVars == <<variantVars, windowVars, multipleVars>>

pureVars == <<parseVars, codecVars, sessionVars, besideVars>>

\* What get_hist leaves alone: the token, the constructor, the thread, the
\* functions followed on their own
outerVars == <<token, authVars, threadVars, pureVars>>

vars ==
    <<pc, callVars, attemptVars, transportVars, historyVars, observerVars,
      outerVars>>

\* get_hist and the transport before the first call.
NothingCalled ==
    /\ pc = "idle"
    /\ calls = 0
    /\ formatted_symbol = <<>>
    /\ session = NoSession
    /\ chart_session = NoSession
    /\ attempt = 0
    /\ tryNo = 0
    /\ ws = 0
    /\ conns = <<>>
    /\ sent = <<>>
    /\ message_count = 0
    /\ raw_data = "none"
    /\ outcome = "none"
    /\ attemptConn = 0
    /\ recvs = 0
    /\ stopped = FALSE
    /\ lastResult = "none"
    /\ attemptEnd = "none"
    /\ logged = FALSE
    /\ opens = 0
    /\ everyOpenFailed = TRUE
    /\ everyAttemptLogged = TRUE
    /\ everyAnswerError = TRUE
    /\ everyAnswerErrorOnly = TRUE
    /\ idUses = <<>>
    /\ openTries = 0
    /\ openSleeps = 0
    /\ attemptSleeps = 0
    /\ stream = <<>>
    /\ frame = EmptyFrame

\* No DataFetchThread exists.
NoThread ==
    /\ symbols = <<>>
    /\ percentages = <<>>
    /\ rpc = "none"
    /\ results = <<>>
    /\ failed_symbols = <<>>
    /\ new_failed = <<>>
    /\ idx = 0
    /\ pos = 0
    /\ fetch_attempt = 0
    /\ retry_round = 0
    /\ signals = <<>>
    /\ progress = <<>>
    /\ lastFetch = NoFetch
    /\ framed = <<>>
    /\ slept = FALSE
    /\ passFetched = <<>>
    /\ pending = <<>>
    /\ firstFailed = <<>>
    /\ fetchCalls = NoFetchCalls
    /\ interruptionRequested = FALSE

\* No pass 1 is followed for its progress values.
NoProgress ==
    /\ total_symbols = 0
    /\ processed_symbols = 0
    /\ emitted = <<>>

\* TvDatafeed() as MainWindow.fetch_data constructs it: no credentials, so
\* __auth made no request and the token is the anonymous sentinel.
Anonymous ==
    /\ token = anonymous_token
    /\ apc = "constructed"
    /\ credentials = [username |-> FALSE, password |-> FALSE]
    /\ auth_attempt = 0
    /\ login_requests = 0
    /\ lastResponse = "none"

\* No __create_df call is followed.
NoParse ==
    /\ dfpc = "idle"
    /\ create_df_args = [raw_data |-> <<>>, symbol |-> <<>>]
    /\ x = <<>>
    /\ data = <<>>
    /\ volume_data = TRUE
    /\ parsed = NotParsed
    /\ parses = 0
    /\ volumeLost = FALSE

\* None of the functions followed on their own has been called.
\* __create_message before it is called
NoMessage ==
    /\ cmpc = "idle"
    /\ message_args = [func |-> <<>>, param_list |-> <<>>]
    /\ st = <<>>
    /\ packet = <<>>

\* The session-id generators before they are called
NoneGenerated ==
    /\ gpc = "idle"
    /\ generator = <<>>
    /\ random_string = <<>>
    /\ generated = <<>>

\* A run before the thread is started, and where no run is followed
NotRun ==
    [pc |-> "none", results |-> <<>>, failed_symbols |-> <<>>,
     new_failed |-> <<>>, i |-> 0, attempt |-> 0, retry_round |-> 0,
     fetches |-> 0]

\* The two variants of run are not followed.
NoVariants ==
    /\ given_max_retries = 0
    /\ batch = <<>>
    /\ dataRun = NotRun
    /\ testRun = NotRun

\* No window is followed.
NoWindow ==
    /\ enabled = {}
    /\ progress_bar = FALSE
    /\ currentText = ""
    /\ symbol_cache = <<>>
    /\ symbol_threads = <<>>
    /\ fetch_threads = <<>>
    /\ df_dict = FALSE

\* get_multiple_hist is not called.
NotCalled ==
    /\ mhpc = "idle"
    /\ multiple_args = [symbols |-> <<>>, fut_contract |-> [kind |-> "none", v |-> 0]]
    /\ multiple_results = <<>>
    /\ multiple_calls = <<>>

NothingBeside == NoVariants /\ NoWindow /\ NotCalled

NothingApplied == NoParse /\ NoMessage /\ NoneGenerated /\ NothingBeside

\* The state of a freshly constructed instance on which nothing was called.
Init == NothingCalled /\ Anonymous /\ NoThread /\ NoProgress /\ NothingApplied

\* The locals and history of one attempt as they are when its body starts.
\* (message_count and raw_data are live only inside the read loop and in the
\* test that follows it; outside they are kept at their initial values.)
StartAttempt ==
    /\ tryNo' = 0
    /\ sent' = <<>>
    /\ message_count' = 0
    /\ raw_data' = "none"
    /\ attemptConn' = 0
    /\ lastResult' = "none"
    /\ attemptEnd' = "none"
    /\ logged' = FALSE

\* ------------------------------------------------------ loop conditions

\* __create_connection without its retry loop.
MoreOpenTriesNever(t) == FALSE

\* for attempt in range(max_retries) of __create_connection: after try t
\* failed, is there another try
MoreOpenTries(t) == t + 1 < max_retries

\* The sleep after every failed try, the last one included.
SleepsAfterOpenFailureAlways(t) == TRUE

\* if attempt < self.__max_retries - 1: time.sleep(self.__retry_delay), in
\* the except clause of __create_connection
SleepsAfterOpenFailure(t) == t < max_retries - 1

\* The sleep after every attempt that returned nothing, the last one
\* included.
SleepsAfterAttemptAlways(a) == TRUE

\* if attempt < self.__max_retries - 1: time.sleep(self.__retry_delay), after
\* the try statement of an attempt of get_hist
SleepsAfterAttempt(a) == a < max_retries - 1

\* The attempt loop of get_hist running once more, and once less.
MoreAttemptsOneMore(a) == a < max_retries

MoreAttemptsOneLess(a) == a + 2 < max_retries

\* for attempt in range(max_retries) of get_hist: after attempt a, is there
\* another attempt
MoreAttempts(a) == a + 1 < max_retries

\* while message_count < max_messages
ReadMore(mc) == mc < max_messages

\* return df without the test of df.empty.
ReturnsFrameAlways(df) == TRUE

\* if not df.empty: return df
ReturnsFrame(df) == df = "nonempty"

\* The series_error test never succeeding.
SeriesErrorNever(result) == FALSE

\* elif "series_error" in result
SeriesError(result) == result.error

\* if hasattr(self, 'ws') and self.ws
HasConnection(w) == w # 0

\* ------------------------------------------------------ get_hist, entry

\* get_hist(symbol, exchange, fut_contract=fut_contract) up to the first
\* attempt: the print, which is all that reads exchange, __format_symbol,
\* which may raise out of get_hist, then the two session ids, generated once
\* per call.
GetHist(symbol, exchange, fut_contract) ==
    /\ apc = "constructed"
    /\ pc \in {"idle", "done"}
    /\ calls < MaxCalls
    /\ calls' = calls + 1
    /\ attempt' = 0
    /\ StartAttempt
    /\ IF format_symbol_raises(symbol, fut_contract)
       THEN /\ pc' = "done"
            /\ outcome' = "raised"
            /\ formatted_symbol' = <<>>
            /\ session' = NoSession
            /\ chart_session' = NoSession
       ELSE /\ pc' = "connect"
            /\ outcome' = "none"
            /\ formatted_symbol' = format_symbol(symbol, fut_contract)
            /\ session' = generate_session(calls)
            /\ chart_session' = generate_chart_session(calls)
    /\ UNCHANGED transportVars

\* A call of get_hist, with any arguments.
GetHistCall ==
    \E symbol \in Symbols, exchange \in Exchanges, fut_contract \in Contracts :
        GetHist(symbol, exchange, fut_contract)

\* ------------------------------------------------------ __create_connection

\* One try of __create_connection.  A success sets self.ws and returns; a
\* failure is logged and, after the last try, the exception it raises is
\* caught by the except clause of get_hist, which logs and falls to finally.
CreateConnectionTry ==
    /\ pc = "connect"
    /\ \E ok \in BOOLEAN :
          /\ ok => Len(conns) < MaxConns
          /\ IF ok
             THEN /\ ws' = Len(conns) + 1
                  /\ conns' = Append(conns, "open")
                  /\ attemptConn' = Len(conns) + 1
                  /\ pc' = "send"
                  /\ UNCHANGED <<tryNo, logged, attemptEnd>>
             ELSE /\ logged' = TRUE
                  /\ IF MoreOpenTries(tryNo)
                     THEN /\ tryNo' = tryNo + 1
                          /\ pc' = "connect"
                          /\ UNCHANGED attemptEnd
                     ELSE /\ attemptEnd' = "open_failed"
                          /\ pc' = "finally"
                          /\ UNCHANGED tryNo
                  /\ UNCHANGED <<ws, conns, attemptConn>>
    /\ UNCHANGED <<callVars, attempt, sent, message_count, raw_data, lastResult>>

\* ------------------------------------------------------ __send_message

\* __send_message with a send that raised tried again.
SendMessageRetried ==
    /\ pc = "send"
    /\ LET hs == Handshake(session, chart_session, formatted_symbol,
                           extended_session)
           msg == hs[Len(sent) + 1]
       IN \E ok \in BOOLEAN :
             IF ok
             THEN /\ sent' = Append(sent, msg)
                  /\ IF Len(sent) + 1 = Len(hs)
                     THEN /\ raw_data' = "none"
                          /\ message_count' = 0
                          /\ pc' = "recv"
                     ELSE /\ pc' = "send"
                          /\ UNCHANGED <<raw_data, message_count>>
                  /\ UNCHANGED <<logged, attemptEnd>>
             ELSE /\ logged' = TRUE
                  /\ attemptEnd' = "send_failed"
                  /\ pc' = "send"
                  /\ UNCHANGED <<sent, raw_data, message_count>>
    /\ UNCHANGED <<callVars, attempt, tryNo, transportVars, attemptConn, lastResult>>

\* The next __send_message of the handshake.  ws.send may raise: the
\* exception is logged, re-raised and caught by the except clause of
\* get_hist.  After the ninth message the read loop is set up.
SendMessage ==
    /\ pc = "send"
    /\ LET hs == Handshake(session, chart_session, formatted_symbol,
                           extended_session)
           msg == hs[Len(sent) + 1]
       IN \E ok \in BOOLEAN :
             IF ok
             THEN /\ sent' = Append(sent, msg)
                  /\ IF Len(sent) + 1 = Len(hs)
                     THEN /\ raw_data' = "none"
                          /\ message_count' = 0
                          /\ pc' = "recv"
                     ELSE /\ pc' = "send"
                          /\ UNCHANGED <<raw_data, message_count>>
                  /\ UNCHANGED <<logged, attemptEnd>>
             ELSE /\ logged' = TRUE
                  /\ attemptEnd' = "send_failed"
                  /\ pc' = "finally"
                  /\ UNCHANGED <<sent, raw_data, message_count>>
    /\ UNCHANGED <<callVars, attempt, tryNo, transportVars, attemptConn, lastResult>>

\* ------------------------------------------------------ the read loop

\* The markers a message carries, for the history
Markers(result) ==
    CASE result.completed /\ result.error -> "both"
      [] result.completed /\ ~result.error -> "completed"
      [] ~result.completed /\ result.error -> "error"
      [] OTHER -> "other"

\* How an attempt ended whose buffer __create_df turned into the frame df
ParseEnd(df) == IF df = "nonempty" THEN "nonempty_parse" ELSE "empty_parse"

\* Leaving the read loop by break: the message-limit test after the loop,
\* which only logs (in every break branch something was logged already).
Break(end) ==
    /\ logged' = TRUE
    /\ attemptEnd' = end
    /\ message_count' = 0
    /\ raw_data' = "none"
    /\ UNCHANGED outcome

\* One iteration of the read loop whose ws.recv raises: logged, break.
RecvRaises ==
    /\ pc = "recv"
    /\ ReadMore(message_count)
    /\ Break("recv_raised")
    /\ pc' = "finally"
    /\ UNCHANGED <<calls, formatted_symbol, session, chart_session, attempt,
                   tryNo, sent, transportVars, attemptConn, lastResult>>

\* One iteration of the read loop whose ws.recv returns a message.  The
\* series_completed test comes first; a ValueError of __create_df is caught
\* by the except clause inside the loop; return df leaves through finally.
Recv ==
    /\ pc = "recv"
    /\ ReadMore(message_count)
    /\ \E result \in Receivable(raw_data) :
          LET raw == Accumulate(raw_data, result)
              df  == create_df(raw)
          IN /\ lastResult' = Markers(result)
             /\ IF result.completed
                THEN IF df = "ValueError"
                     THEN /\ Break("parse_raised")
                          /\ pc' = "finally"
                     ELSE IF ReturnsFrame(df)
                     THEN /\ outcome' = df
                          /\ attemptEnd' = ParseEnd(df)
                          /\ message_count' = 0
                          /\ raw_data' = "none"
                          /\ pc' = "finally"
                          /\ UNCHANGED logged
                     ELSE /\ Break(ParseEnd(df))
                          /\ pc' = "finally"
                ELSE IF SeriesError(result)
                THEN /\ Break("series_error")
                     /\ pc' = "finally"
                ELSE /\ raw_data' = raw
                     /\ message_count' = message_count + 1
                     /\ pc' = "recv"
                     /\ UNCHANGED <<logged, attemptEnd, outcome>>
    /\ UNCHANGED <<calls, formatted_symbol, session, chart_session, attempt,
                   tryNo, sent, transportVars, attemptConn>>

\* The loop condition fails: the message limit was reached, which is logged.
ReadLoopExit ==
    /\ pc = "recv"
    /\ ~ReadMore(message_count)
    /\ logged' = (logged \/ message_count >= max_messages)
    /\ attemptEnd' = "bound"
    /\ message_count' = 0
    /\ raw_data' = "none"
    /\ pc' = "finally"
    /\ UNCHANGED <<callVars, attempt, tryNo, sent, transportVars, attemptConn,
                   lastResult>>

\* ------------------------------------------------------ finally and retry

\* A connection after close was invoked on it
Closed(status) == IF status = "open" THEN "closed" ELSE "closed_again"

\* The finally clause without its close.
FinallyNoClose(w, cn) == cn

\* The finally clause: ws.close() on whatever self.ws holds (an exception of
\* close is swallowed by the bare except)
FinallyClose(w, cn) ==
    IF HasConnection(w) THEN [cn EXCEPT ![w] = Closed(@)] ELSE cn

\* The finally clause, then what follows it: the pending return of the
\* frame, or the retry sleep and the next attempt, or, after the last
\* attempt, the final log and the return of an empty frame.
Finally ==
    /\ pc = "finally"
    /\ conns' = FinallyClose(ws, conns)
    /\ IF outcome # "none"
       THEN /\ pc' = "done"
            /\ UNCHANGED <<outcome, attemptVars, historyVars>>
       ELSE IF MoreAttempts(attempt)
       THEN /\ pc' = "connect"
            /\ attempt' = attempt + 1
            /\ StartAttempt
            /\ UNCHANGED outcome
       ELSE /\ pc' = "done"
            /\ outcome' = "empty"
            /\ UNCHANGED <<attemptVars, historyVars>>
    /\ UNCHANGED <<calls, formatted_symbol, session, chart_session, ws>>

\* ------------------------------------------------------ observers
\* An observer adds to a step of the program the record of what the step
\* did.  It reads the program's variables before and after the step and
\* constrains none of them.

\* The opens of a get_hist call: every CreateConnectionTry step is one
\* create_connection call of the websocket library; it succeeded when
\* self.ws was set.
OpensReset ==
    /\ opens' = 0
    /\ everyOpenFailed' = TRUE

OpensCount ==
    /\ opens' = opens + 1
    /\ everyOpenFailed' = (everyOpenFailed /\ ws' = ws)

\* The attempts of a get_hist call, summed up as each one ends.
AnswersReset ==
    /\ everyAttemptLogged' = TRUE
    /\ everyAnswerError' = TRUE
    /\ everyAnswerErrorOnly' = TRUE

AnswersSum ==
    /\ everyAttemptLogged' = (everyAttemptLogged /\ logged)
    /\ everyAnswerError' = (everyAnswerError /\ lastResult \in {"error", "both"})
    /\ everyAnswerErrorOnly' = (everyAnswerErrorOnly /\ lastResult = "error")

\* f with one more attempt having sent id
Bump(f, id) ==
    IF id \in DOMAIN f THEN [f EXCEPT ![id] = @ + 1] ELSE f @@ (id :> 1)

\* For each session id, the attempts that sent it as the session of
\* chart_create_session or quote_create_session.
IdsCount ==
    idUses' = IF /\ Len(sent') > Len(sent)
                 /\ sent'[Len(sent')].m \in {"chart_create_session", "quote_create_session"}
              THEN Bump(idUses, sent'[Len(sent')].p[1])
              ELSE idUses

\* The receives of an attempt: every Recv and RecvRaises step is one ws.recv.
ReadsReset ==
    /\ recvs' = 0
    /\ stopped' = FALSE

ReadsCount ==
    /\ recvs' = recvs + 1
    /\ stopped' = (stopped \/ lastResult' \in {"completed", "error", "both"})

ReadsRaised ==
    /\ recvs' = recvs + 1
    /\ stopped' = TRUE

\* The tries of a __create_connection call: every CreateConnectionTry step
\* is one create_connection call; it failed when no connection was recorded
\* for the attempt, and the except clause then sleeps or not.
ConnectReset ==
    /\ openTries' = 0
    /\ openSleeps' = 0

ConnectCount ==
    /\ openTries' = openTries + 1
    /\ openSleeps' = IF attemptConn' = 0 /\ SleepsAfterOpenFailure(tryNo)
                     THEN openSleeps + 1
                     ELSE openSleeps

\* A get_hist call has returned no frame yet.
FrameReset ==
    /\ stream' = <<>>
    /\ frame' = EmptyFrame

\* The frame of a call that returns one.  The bar array that the buffer
\* held ("bars", an array of well-formed records) is given its records
\* here, where the frame __create_df made of its text reaches the caller:
\* until then nothing reads them.
FrameRecorded ==
    IF outcome = "nonempty"
    THEN \E records \in WellFormedArrays :
            /\ stream' = records
            /\ frame' = create_df_text(StreamText(records), formatted_symbol).frame
    ELSE UNCHANGED frameVars

\* The sleeps of the attempt loop of a get_hist call: a Finally step whose
\* return of the frame is not pending goes on to the test before
\* time.sleep(self.__retry_delay).
SleepsReset == attemptSleeps' = 0

SleepsCount ==
    attemptSleeps' = IF outcome = "none" /\ SleepsAfterAttempt(attempt)
                     THEN attemptSleeps + 1
                     ELSE attemptSleeps

\* The next attempt calls __create_connection anew.
ConnectNext ==
    IF pc' = "connect" THEN ConnectReset ELSE UNCHANGED connectVars

\* ------------------------------------------------------ specifications

\* The program alone.
Next ==
    \/ GetHistCall /\ UNCHANGED <<observerVars, outerVars>>
    \/ CreateConnectionTry /\ UNCHANGED <<observerVars, outerVars>>
    \/ SendMessage /\ UNCHANGED <<observerVars, outerVars>>
    \/ RecvRaises /\ UNCHANGED <<observerVars, outerVars>>
    \/ Recv /\ UNCHANGED <<observerVars, outerVars>>
    \/ ReadLoopExit /\ UNCHANGED <<observerVars, outerVars>>
    \/ Finally /\ UNCHANGED <<observerVars, outerVars>>

Spec == Init /\ [][Next]_vars

\* The program with the opens of each call counted.
NextOpens ==
    \/ GetHistCall /\ OpensReset /\ UNCHANGED <<answerVars, idUses, readVars, traceVars, outerVars>>
    \/ CreateConnectionTry /\ OpensCount /\ UNCHANGED <<answerVars, idUses, readVars, traceVars, outerVars>>
    \/ SendMessage /\ UNCHANGED <<observerVars, outerVars>>
    \/ RecvRaises /\ UNCHANGED <<observerVars, outerVars>>
    \/ Recv /\ UNCHANGED <<observerVars, outerVars>>
    \/ ReadLoopExit /\ UNCHANGED <<observerVars, outerVars>>
    \/ Finally /\ UNCHANGED <<observerVars, outerVars>>

SpecOpens == Init /\ [][NextOpens]_vars

\* The program with the attempts of each call summed up.
NextAnswers ==
    \/ GetHistCall /\ AnswersReset /\ UNCHANGED <<opensVars, idUses, readVars, traceVars, outerVars>>
    \/ CreateConnectionTry /\ UNCHANGED <<observerVars, outerVars>>
    \/ SendMessage /\ UNCHANGED <<observerVars, outerVars>>
    \/ RecvRaises /\ UNCHANGED <<observerVars, outerVars>>
    \/ Recv /\ UNCHANGED <<observerVars, outerVars>>
    \/ ReadLoopExit /\ UNCHANGED <<observerVars, outerVars>>
    \/ Finally /\ AnswersSum /\ UNCHANGED <<opensVars, idUses, readVars, traceVars, outerVars>>

SpecAnswers == Init /\ [][NextAnswers]_vars

\* The program with the uses of its session ids counted.
NextIds ==
    \/ GetHistCall /\ UNCHANGED <<observerVars, outerVars>>
    \/ CreateConnectionTry /\ UNCHANGED <<observerVars, outerVars>>
    \/ SendMessage /\ IdsCount /\ UNCHANGED <<opensVars, answerVars, readVars, traceVars, outerVars>>
    \/ RecvRaises /\ UNCHANGED <<observerVars, outerVars>>
    \/ Recv /\ UNCHANGED <<observerVars, outerVars>>
    \/ ReadLoopExit /\ UNCHANGED <<observerVars, outerVars>>
    \/ Finally /\ UNCHANGED <<observerVars, outerVars>>

SpecIds == Init /\ [][NextIds]_vars

\* The program with the receives of each attempt counted.
NextReads ==
    \/ GetHistCall /\ ReadsReset /\ UNCHANGED <<opensVars, answerVars, idUses, traceVars, outerVars>>
    \/ CreateConnectionTry /\ UNCHANGED <<observerVars, outerVars>>
    \/ SendMessage /\ UNCHANGED <<observerVars, outerVars>>
    \/ RecvRaises /\ ReadsRaised /\ UNCHANGED <<opensVars, answerVars, idUses, traceVars, outerVars>>
    \/ Recv /\ ReadsCount /\ UNCHANGED <<opensVars, answerVars, idUses, traceVars, outerVars>>
    \/ ReadLoopExit /\ UNCHANGED <<observerVars, outerVars>>
    \/ Finally /\ ReadsReset /\ UNCHANGED <<opensVars, answerVars, idUses, traceVars, outerVars>>

SpecReads == Init /\ [][NextReads]_vars

\* The program with the tries and sleeps of each __create_connection counted.
NextConnect ==
    \/ GetHistCall /\ ConnectReset /\ UNCHANGED <<opensVars, answerVars, idUses, readVars, frameVars, sleepVars, outerVars>>
    \/ CreateConnectionTry /\ ConnectCount /\ UNCHANGED <<opensVars, answerVars, idUses, readVars, frameVars, sleepVars, outerVars>>
    \/ SendMessage /\ UNCHANGED <<observerVars, outerVars>>
    \/ RecvRaises /\ UNCHANGED <<observerVars, outerVars>>
    \/ Recv /\ UNCHANGED <<observerVars, outerVars>>
    \/ ReadLoopExit /\ UNCHANGED <<observerVars, outerVars>>
    \/ Finally /\ ConnectNext /\ UNCHANGED <<opensVars, answerVars, idUses, readVars, frameVars, sleepVars, outerVars>>

SpecConnect == Init /\ [][NextConnect]_vars

\* The program with the frame that each call returns recorded.
NextFrames ==
    \/ GetHistCall /\ FrameReset /\ UNCHANGED <<opensVars, answerVars, idUses, readVars, connectVars, sleepVars, outerVars>>
    \/ CreateConnectionTry /\ UNCHANGED <<observerVars, outerVars>>
    \/ SendMessage /\ UNCHANGED <<observerVars, outerVars>>
    \/ RecvRaises /\ UNCHANGED <<observerVars, outerVars>>
    \/ Recv /\ UNCHANGED <<observerVars, outerVars>>
    \/ ReadLoopExit /\ UNCHANGED <<observerVars, outerVars>>
    \/ Finally /\ FrameRecorded /\ UNCHANGED <<opensVars, answerVars, idUses, readVars, connectVars, sleepVars, outerVars>>

SpecFrames == Init /\ [][NextFrames]_vars

\* The program with the sleeps of the attempt loop of each call counted.
NextSleeps ==
    \/ GetHistCall /\ SleepsReset /\ UNCHANGED <<opensVars, answerVars, idUses, readVars, connectVars, frameVars, outerVars>>
    \/ CreateConnectionTry /\ UNCHANGED <<observerVars, outerVars>>
    \/ SendMessage /\ UNCHANGED <<observerVars, outerVars>>
    \/ RecvRaises /\ UNCHANGED <<observerVars, outerVars>>
    \/ Recv /\ UNCHANGED <<observerVars, outerVars>>
    \/ ReadLoopExit /\ UNCHANGED <<observerVars, outerVars>>
    \/ Finally /\ SleepsCount /\ UNCHANGED <<opensVars, answerVars, idUses, readVars, connectVars, frameVars, outerVars>>

SpecSleeps == Init /\ [][NextSleeps]_vars

\* ------------------------------------------------------ __init__ and __auth

\* Before TvDatafeed(...) is called.
NotConstructed ==
    /\ token = None
    /\ apc = "new"
    /\ credentials = [username |-> FALSE, password |-> FALSE]
    /\ auth_attempt = 0
    /\ login_requests = 0
    /\ lastResponse = "none"

InitAuth ==
    NothingCalled /\ NotConstructed /\ NoThread /\ NoProgress /\ NothingApplied

\* The test of the password left out.
HasCredentialsUsernameOnly(c) == c.username

\* if username is None or password is None: return None
HasCredentials(c) == c.username /\ c.password

\* The login loop running once more.
MoreAuthAttemptsOneMore(a) == a < max_retries

\* for attempt in range(self.__max_retries) of __auth: after attempt a
\* failed, is there another attempt
MoreAuthAttempts(a) == a + 1 < max_retries

\* if response.status_code == 200 and response.json()['user']['auth_token']
\* raises nothing: __auth returns at once
Returns(resp) == resp \in {"token", "null_token"}

\* token = response.json()['user']['auth_token']
Returned(resp) == IF resp = "token" THEN server_token ELSE None

\* self.token = self.__auth(...); if self.token is None: the sentinel
TokenAfter(returned) == IF returned = None THEN anonymous_token ELSE returned

\* TvDatafeed(username, password) up to the first requests.post, or to its
\* end when __auth returns None at once.
Construct ==
    /\ apc = "new"
    /\ \E u, p \in BOOLEAN :
          /\ credentials' = [username |-> u, password |-> p]
          /\ IF HasCredentials(credentials')
             THEN /\ apc' = "auth"
                  /\ UNCHANGED token
             ELSE /\ apc' = "constructed"
                  /\ token' = TokenAfter(None)
    /\ auth_attempt' = 0
    /\ UNCHANGED <<login_requests, lastResponse>>

\* One iteration of the login loop: requests.post and what follows it.  A
\* failure is logged (after an exception, of requests.post or of reading the
\* body, the loop sleeps unless it was the last attempt); after the last
\* attempt __auth returns None.
LoginRequest ==
    /\ apc = "auth"
    /\ \E resp \in Responses :
          /\ login_requests' = login_requests + 1
          /\ lastResponse' = resp
          /\ IF Returns(resp)
             THEN /\ token' = TokenAfter(Returned(resp))
                  /\ apc' = "constructed"
                  /\ UNCHANGED auth_attempt
             ELSE IF MoreAuthAttempts(auth_attempt)
             THEN /\ auth_attempt' = auth_attempt + 1
                  /\ UNCHANGED <<token, apc>>
             ELSE /\ token' = TokenAfter(None)
                  /\ apc' = "constructed"
                  /\ UNCHANGED auth_attempt
    /\ UNCHANGED credentials

\* The arguments and locals of the constructor and the history of __auth end
\* with the constructor: they are dropped when the instance is first used.
ConstructorForgotten ==
    /\ credentials' = [username |-> FALSE, password |-> FALSE]
    /\ auth_attempt' = 0
    /\ login_requests' = 0
    /\ lastResponse' = "none"
    /\ UNCHANGED <<token, apc>>

\* What the constructor leaves alone
calledVars ==
    <<pc, callVars, attemptVars, transportVars, historyVars, observerVars,
      threadVars, pureVars>>

\* The constructor, then get_hist calls on the instance it made.
NextAuth ==
    \/ Construct /\ UNCHANGED calledVars
    \/ LoginRequest /\ UNCHANGED calledVars
    \/ GetHistCall /\ ConstructorForgotten /\ UNCHANGED <<observerVars, threadVars, pureVars>>
    \/ CreateConnectionTry /\ UNCHANGED <<observerVars, outerVars>>
    \/ SendMessage /\ UNCHANGED <<observerVars, outerVars>>
    \/ RecvRaises /\ UNCHANGED <<observerVars, outerVars>>
    \/ Recv /\ UNCHANGED <<observerVars, outerVars>>
    \/ ReadLoopExit /\ UNCHANGED <<observerVars, outerVars>>
    \/ Finally /\ UNCHANGED <<observerVars, outerVars>>

SpecAuth == InitAuth /\ [][NextAuth]_vars

\* ------------------------------------------------------ DataFetchThread.run

\* int(((idx + 1) / total_symbols) * 100)
ProgressValue(k, n) == to_int(float_mul(true_div(k, n), from_int(100)))

\* The thread as MainWindow.fetch_data constructs it, not yet started.
Created ==
    /\ symbols \in SymbolLists
    /\ percentages = Tuple([k \in 1..Len(symbols) |->
                              ProgressValue(k, Len(symbols))], Len(symbols))
    /\ rpc = "created"
    /\ results = <<>>
    /\ failed_symbols = <<>>
    /\ new_failed = <<>>
    /\ idx = 0
    /\ pos = 0
    /\ fetch_attempt = 0
    /\ retry_round = 0
    /\ signals = <<>>
    /\ progress = <<>>
    /\ lastFetch = NoFetch
    /\ framed = <<>>
    /\ slept = FALSE
    /\ passFetched = <<>>
    /\ pending = <<>>
    /\ firstFailed = <<>>
    /\ fetchCalls = NoFetchCalls
    /\ interruptionRequested = FALSE

InitRun == NothingCalled /\ Anonymous /\ Created /\ NoProgress /\ NothingApplied

\* What run leaves alone
instanceVars ==
    <<pc, callVars, attemptVars, transportVars, historyVars, observerVars,
      token, authVars, pureVars>>

\* The frame stored without the test of df.empty.
StoredAlways(df) == TRUE

\* if df is not None and not df.empty
Stored(df) == df = "nonempty"

\* The get_hist call outside any try of its own.
InnerExceptNone(r) == FALSE

\* except Exception around the get_hist call: is what it raised caught there
InnerExcept(r) == r = "raised"

\* The attempt loop of run running once more.
MoreFetchAttemptsOneMore(a) == a < thread_max_retries

\* for attempt in range(self.max_retries) of run: after attempt a failed, is
\* there another attempt
MoreFetchAttempts(a) == a + 1 < thread_max_retries

\* The retry rounds without their bound.
MoreRoundsUnbounded(failed, round) == failed # <<>>

\* while failed_symbols and retry_round <= self.max_retries
MoreRounds(failed, round) == failed # <<>> /\ round <= thread_max_retries

\* The failed symbol put in front of the list.
KeepFailedInFront(list, symbol) == <<symbol>> \o list

\* failed_symbols.append(symbol), new_failed.append(symbol)
KeepFailed(list, symbol) == Append(list, symbol)

\* A frame fetched in a retry round not stored.
StoreFirstPassOnly(res, symbol, round) ==
    IF round = 0
    THEN [s \in (DOMAIN res) \cup {symbol} |-> IF s = symbol THEN round ELSE res[s]]
    ELSE res

\* results[symbol] = df, the frame named by the pass that fetched it
Store(res, symbol, round) ==
    [s \in (DOMAIN res) \cup {symbol} |-> IF s = symbol THEN round ELSE res[s]]

\* The record of one get_hist call of run
RecordFetch(symbol, r) ==
    /\ lastFetch' = [symbol |-> symbol, round |-> retry_round,
                     attempt |-> fetch_attempt, result |-> r]
    /\ framed' = IF r = "nonempty" /\ symbol \notin DOMAIN framed
                 THEN framed @@ (symbol :> retry_round)
                 ELSE framed
    /\ passFetched' = IF passFetched # <<>> /\ passFetched[Len(passFetched)] = symbol
                      THEN passFetched
                      ELSE Append(passFetched, symbol)

\* except Exception as e: self.error.emit(str(e)), the handler around the
\* whole of run
OuterExcept ==
    /\ signals' = Append(signals, "error")
    /\ rpc' = "finished"
    /\ UNCHANGED <<results, failed_symbols, new_failed, idx, pos, fetch_attempt,
                   retry_round, progress, slept, firstFailed>>

\* run up to its first get_hist call
RunStart ==
    /\ rpc = "created"
    /\ results' = <<>>
    /\ failed_symbols' = <<>>
    /\ idx' = 0
    /\ fetch_attempt' = 0
    /\ pending' = symbols
    /\ passFetched' = <<>>
    /\ IF symbols = <<>>
       THEN rpc' = "while" /\ retry_round' = 1
       ELSE rpc' = "pass1" /\ UNCHANGED retry_round
    /\ UNCHANGED <<symbols, percentages, new_failed, pos, signals, progress, lastFetch,
                   framed, slept, firstFailed, interruptionRequested>>

\* Pass 1 after the attempts of symbols[idx + 1]: the progress emission, and
\* the next symbol or, after the last one, retry_round = 1
SymbolDone ==
    /\ progress' = Append(progress, percentages[idx + 1])
    /\ idx' = idx + 1
    /\ fetch_attempt' = 0
    /\ IF idx + 1 = Len(symbols)
       THEN rpc' = "while" /\ retry_round' = 1
       ELSE rpc' = "pass1" /\ UNCHANGED retry_round

\* One get_hist call of pass 1 and what follows it up to the next call.
FetchPass1 ==
    /\ rpc = "pass1"
    /\ LET symbol == symbols[idx + 1]
       IN \E r \in FetchResults :
             /\ RecordFetch(symbol, r)
             /\ IF r = "raised" /\ ~InnerExcept(r)
                THEN OuterExcept
                ELSE /\ UNCHANGED <<signals, new_failed, pos>>
                     /\ IF Stored(r)
                        THEN /\ results' = Store(results, symbol, 0)
                             /\ slept' = FALSE
                             /\ SymbolDone
                             /\ UNCHANGED <<failed_symbols, firstFailed>>
                        ELSE /\ slept' = TRUE
                             /\ UNCHANGED results
                             /\ IF MoreFetchAttempts(fetch_attempt)
                                THEN /\ fetch_attempt' = fetch_attempt + 1
                                     /\ UNCHANGED <<rpc, idx, retry_round, progress,
                                                    failed_symbols, firstFailed>>
                                ELSE /\ failed_symbols' = KeepFailed(failed_symbols, symbol)
                                     /\ firstFailed' = Append(firstFailed, symbol)
                                     /\ SymbolDone
    /\ UNCHANGED <<symbols, percentages, pending, interruptionRequested>>

\* The while test succeeds: a retry round starts.
RetryRound ==
    /\ rpc = "while"
    /\ MoreRounds(failed_symbols, retry_round)
    /\ new_failed' = <<>>
    /\ pos' = 0
    /\ fetch_attempt' = 0
    /\ rpc' = "round"
    /\ pending' = failed_symbols
    /\ passFetched' = <<>>
    /\ UNCHANGED <<symbols, percentages, results, failed_symbols, idx, retry_round, signals,
                   progress, lastFetch, framed, slept, firstFailed,
                   interruptionRequested>>

\* The round number left as it is.
NextRoundSame(round) == round

\* retry_round += 1
NextRound(round) == round + 1

\* A retry round after the attempts of failed_symbols[pos + 1]: the next
\* symbol or, after the last one, the end of the round
RetryDone ==
    /\ fetch_attempt' = 0
    /\ IF pos + 1 = Len(failed_symbols)
       THEN /\ failed_symbols' = new_failed'
            /\ retry_round' = NextRound(retry_round)
            /\ pos' = 0
            /\ rpc' = "while"
       ELSE /\ pos' = pos + 1
            /\ rpc' = "round"
            /\ UNCHANGED <<failed_symbols, retry_round>>

\* One get_hist call of a retry round and what follows it up to the next.
FetchRetry ==
    /\ rpc = "round"
    /\ LET symbol == failed_symbols[pos + 1]
       IN \E r \in FetchResults :
             /\ RecordFetch(symbol, r)
             /\ IF r = "raised" /\ ~InnerExcept(r)
                THEN OuterExcept
                ELSE /\ UNCHANGED <<signals, idx, progress, firstFailed>>
                     /\ IF Stored(r)
                        THEN /\ results' = Store(results, symbol, retry_round)
                             /\ slept' = FALSE
                             /\ UNCHANGED new_failed
                             /\ RetryDone
                        ELSE /\ slept' = TRUE
                             /\ UNCHANGED results
                             /\ IF MoreFetchAttempts(fetch_attempt)
                                THEN /\ fetch_attempt' = fetch_attempt + 1
                                     /\ UNCHANGED <<rpc, pos, retry_round,
                                                    failed_symbols, new_failed>>
                                ELSE /\ new_failed' = KeepFailed(new_failed, symbol)
                                     /\ RetryDone
    /\ UNCHANGED <<symbols, percentages, pending, interruptionRequested>>

\* The while test fails: the final log message and data_fetched.
EmitResults ==
    /\ rpc = "while"
    /\ ~MoreRounds(failed_symbols, retry_round)
    /\ signals' = Append(signals, "data_fetched")
    /\ rpc' = "finished"
    /\ UNCHANGED <<symbols, percentages, results, failed_symbols, new_failed, idx, pos,
                   fetch_attempt, retry_round, progress, runHistoryVars,
                   interruptionRequested>>

\* requestInterruption(), which DataFetchThread has from QThread, called by
\* another thread while run is running.
RequestInterruption ==
    /\ rpc \in {"pass1", "while", "round"}
    /\ ~interruptionRequested
    /\ interruptionRequested' = TRUE
    /\ UNCHANGED <<runVars, runHistoryVars>>

NextRun ==
    \/ RunStart /\ UNCHANGED <<instanceVars, progressVars, countVars>>
    \/ FetchPass1 /\ UNCHANGED <<instanceVars, progressVars, countVars>>
    \/ RetryRound /\ UNCHANGED <<instanceVars, progressVars, countVars>>
    \/ FetchRetry /\ UNCHANGED <<instanceVars, progressVars, countVars>>
    \/ EmitResults /\ UNCHANGED <<instanceVars, progressVars, countVars>>
    \/ RequestInterruption /\ UNCHANGED <<instanceVars, progressVars, countVars>>

SpecRun == InitRun /\ [][NextRun]_vars

\* The get_hist calls of run, counted for each symbol and pass: every
\* FetchPass1 and FetchRetry step is one call, of the symbol and in the pass
\* that lastFetch names (pass 1 is round 0).
FetchCounted ==
    fetchCalls' = [fetchCalls EXCEPT ![lastFetch'.symbol][lastFetch'.round + 1] = @ + 1]

\* run with its get_hist calls counted.
NextFetches ==
    \/ RunStart /\ UNCHANGED <<instanceVars, progressVars, countVars>>
    \/ FetchPass1 /\ FetchCounted /\ UNCHANGED <<instanceVars, progressVars>>
    \/ RetryRound /\ UNCHANGED <<instanceVars, progressVars, countVars>>
    \/ FetchRetry /\ FetchCounted /\ UNCHANGED <<instanceVars, progressVars>>
    \/ EmitResults /\ UNCHANGED <<instanceVars, progressVars, countVars>>
    \/ RequestInterruption /\ UNCHANGED <<instanceVars, progressVars, countVars>>

SpecFetches == InitRun /\ [][NextFetches]_vars

\* get_hist calls on an instance, or the run of a thread, with the steps of
\* the program taken as long as one can be: every open, send, receive and
\* sleep returns or raises, and then the step that follows it is taken.
\* Calling get_hist, starting the thread and requesting its interruption are
\* left to the caller.
InitLive == Init \/ InitRun

GetHistStep ==
    \/ CreateConnectionTry
    \/ SendMessage
    \/ RecvRaises
    \/ Recv
    \/ ReadLoopExit
    \/ Finally

RunStep ==
    \/ FetchPass1
    \/ RetryRound
    \/ FetchRetry
    \/ EmitResults

NextLive ==
    \/ rpc = "none" /\ Next
    \/ NextRun

SpecLive ==
    /\ InitLive
    /\ [][NextLive]_vars
    /\ WF_vars(GetHistStep /\ UNCHANGED <<observerVars, outerVars>>)
    /\ WF_vars(RunStep /\ UNCHANGED <<instanceVars, progressVars, countVars>>)

\* ------------------------------------------------------ progress of pass 1

\* Number of symbols of a batch whose progress values are followed.
MaxBatch == 50

\* run at total_symbols = len(self.symbols), for a batch of any size the
\* symbol selection allows.
Pass1Begins ==
    /\ total_symbols \in 1..MaxBatch
    /\ processed_symbols = 0
    /\ emitted = <<>>

InitProgress ==
    NothingCalled /\ Anonymous /\ NoThread /\ Pass1Begins /\ NothingApplied

\* The end of one iteration of the for loop of pass 1: the attempts of the
\* symbol are over, with a frame or without, and the progress value is
\* emitted.  The value depends on the count and the total only, so the
\* get_hist calls of the iteration are left out here.
SymbolProcessed ==
    /\ processed_symbols < total_symbols
    /\ processed_symbols' = processed_symbols + 1
    /\ emitted' = Append(emitted, ProgressValue(processed_symbols + 1, total_symbols))
    /\ UNCHANGED total_symbols

NextProgress ==
    \/ SymbolProcessed /\ UNCHANGED <<instanceVars, runVars, runHistoryVars,
                                      interruptionRequested, countVars>>

SpecProgress == InitProgress /\ [][NextProgress]_vars

\* ------------------------------------------------------ __create_df, steps

\* What a function followed on its own leaves alone: get_hist, the
\* constructor, the thread
\* ------------------------------------------------------ __create_message

MaxParams == 2

\* The characters of the texts followed here, by name, with their code
\* points; a lowercase letter is named by itself.
CodePoints ==
    ("nl" :> 10) @@ ("quote" :> 34) @@ ("0" :> 48) @@ ("1" :> 49)
      @@ ("backslash" :> 92) @@ ("_" :> 95) @@ ("~" :> 126) @@ ("del" :> 127)
      @@ ("e_acute" :> 233) @@ ("euro" :> 8364) @@ ("grin" :> 128512)

\* string.ascii_lowercase
ascii_lowercase ==
    << "a", "b", "c", "d", "e", "f", "g", "h", "i", "j", "k", "l", "m", "n",
       "o", "p", "q", "r", "s", "t", "u", "v", "w", "x", "y", "z" >>

\* ord(c)
Ord(c) ==
    IF c \in DOMAIN CodePoints THEN CodePoints[c]
    ELSE 96 + IndexIn(ascii_lowercase, c)

\* A str, as the sequence of its code points
Text(names) == Tuple([i \in 1..Len(names) |-> Ord(names[i])], Len(names))

\* The texts given as func and inside param_list: empty, plain, one that
\* reads like a header, and ones with characters that JSON escapes, with
\* control characters, and with characters of 2, 3 and 4 bytes in UTF-8
Names ==
    { Text(<<>>),
      Text(<<"m">>),
      Text(<<"~", "m", "~", "1", "~", "m", "~">>),
      Text(<<"quote", "backslash">>),
      Text(<<"nl", "del">>),
      Text(<<"e_acute">>),
      Text(<<"euro", "a">>),
      Text(<<"grin">>) }

\* The values of param_list: str, int, bool, None, a list, a dict
Items ==
    { [kind |-> "str", v |-> name] : name \in Names }
      \cup { [kind |-> "int", v |-> 5000], [kind |-> "int", v |-> 0 - 7],
              [kind |-> "bool", v |-> TRUE], [kind |-> "null"],
              [kind |-> "list",
               v |-> << [kind |-> "str", v |-> Text(<<"euro", "a">>)],
                        [kind |-> "int", v |-> 0] >>],
              [kind |-> "dict",
               v |-> << [key |-> Text(<<"f", "l", "a", "g", "s">>),
                         value |-> [kind |-> "list",
                                    v |-> << [kind |-> "str",
                                              v |-> Text(<<"grin">>)] >>]] >>] }

ParamLists == UNION { [1..n -> Items] : n \in 0..MaxParams }

\* "".join(parts)
RECURSIVE Concat(_)
Concat(parts) ==
    IF parts = <<>> THEN <<>> ELSE Head(parts) \o Concat(Tail(parts))

\* sep.join(parts)
RECURSIVE Join(_, _)
Join(parts, sep) ==
    IF Len(parts) <= 1 THEN Concat(parts)
    ELSE Head(parts) \o sep \o Join(Tail(parts), sep)

\* str(n) for n >= 0, and for any int
RECURSIVE decimal(_)
decimal(n) ==
    IF n < 10 THEN <<48 + n>> ELSE decimal(n \div 10) \o <<48 + (n % 10)>>

int_str(n) == IF n < 0 THEN <<45>> \o decimal(0 - n) ELSE decimal(n)

\* A hexadecimal digit, lowercase, and \uXXXX
hex(d) == IF d < 10 THEN 48 + d ELSE 87 + d

u_escape(n) ==
    <<92, 117, hex(n \div 4096), hex((n \div 256) % 16), hex((n \div 16) % 16),
      hex(n % 16)>>

\* json.dumps(..., ensure_ascii=False): characters above ~ as they are.
escape_raw(cp) ==
    CASE cp = 34 -> <<92, 34>>
      [] cp = 92 -> <<92, 92>>
      [] cp = 10 -> <<92, 110>>
      [] cp = 13 -> <<92, 114>>
      [] cp = 9 -> <<92, 116>>
      [] cp = 8 -> <<92, 98>>
      [] cp = 12 -> <<92, 102>>
      [] OTHER -> IF cp < 32 THEN u_escape(cp) ELSE <<cp>>

\* What json.dumps, with ensure_ascii at its default True, writes for one
\* character of a str: the short escapes, the character itself from space
\* to ~, \uXXXX for the others, a surrogate pair above U+FFFF
escape(cp) ==
    CASE cp = 34 -> <<92, 34>>
      [] cp = 92 -> <<92, 92>>
      [] cp = 10 -> <<92, 110>>
      [] cp = 13 -> <<92, 114>>
      [] cp = 9 -> <<92, 116>>
      [] cp = 8 -> <<92, 98>>
      [] cp = 12 -> <<92, 102>>
      [] OTHER ->
           IF cp >= 32 /\ cp <= 126 THEN <<cp>>
           ELSE IF cp >= 65536
           THEN u_escape(55296 + ((cp - 65536) \div 1024))
                  \o u_escape(56320 + ((cp - 65536) % 1024))
           ELSE u_escape(cp)

\* json.dumps of a str
dumps_str(text) ==
    <<34>> \o Concat(Tuple([i \in 1..Len(text) |-> escape(text[i])], Len(text)))
      \o <<34>>

\* json.dumps(value, separators=(",", ":"))
RECURSIVE dumps(_)
dumps(value) ==
    CASE value.kind = "str" -> dumps_str(value.v)
      [] value.kind = "int" -> int_str(value.v)
      [] value.kind = "bool" ->
           IF value.v THEN Text(<<"t", "r", "u", "e">>)
           ELSE Text(<<"f", "a", "l", "s", "e">>)
      [] value.kind = "null" -> Text(<<"n", "u", "l", "l">>)
      [] value.kind = "list" ->
           <<91>> \o Join(Tuple([i \in 1..Len(value.v) |-> dumps(value.v[i])],
                                Len(value.v)), <<44>>)
             \o <<93>>
      [] value.kind = "dict" ->
           <<123>> \o Join(Tuple([i \in 1..Len(value.v) |->
                                     dumps_str(value.v[i].key) \o <<58>>
                                       \o dumps(value.v[i].value)],
                                 Len(value.v)), <<44>>)
             \o <<125>>

\* __construct_message(func, param_list)
construct_message(func, param_list) ==
    dumps([kind |-> "dict",
           v |-> << [key |-> Text(<<"m">>), value |-> [kind |-> "str", v |-> func]],
                    [key |-> Text(<<"p">>),
                     value |-> [kind |-> "list", v |-> param_list]] >>])

\* __prepend_header(st)
prepend_header(text) ==
    Text(<<"~", "m", "~">>) \o int_str(Len(text)) \o Text(<<"~", "m", "~">>)
      \o text

\* The bytes of one character in UTF-8, and text.encode("utf-8"): what
\* ws.send puts on the wire for a str
utf8(cp) ==
    IF cp < 128 THEN <<cp>>
    ELSE IF cp < 2048 THEN <<192 + (cp \div 64), 128 + (cp % 64)>>
    ELSE IF cp < 65536
    THEN <<224 + (cp \div 4096), 128 + ((cp \div 64) % 64), 128 + (cp % 64)>>
    ELSE <<240 + (cp \div 262144), 128 + ((cp \div 4096) % 64),
           128 + ((cp \div 64) % 64), 128 + (cp % 64)>>

encode(text) ==
    Concat(Tuple([i \in 1..Len(text) |-> utf8(text[i])], Len(text)))

\* self.__create_message(func, args), first half: __construct_message
ConstructMessage ==
    /\ cmpc = "idle"
    /\ \E func \in Names, param_list \in ParamLists :
          /\ message_args' = [func |-> func, param_list |-> param_list]
          /\ st' = construct_message(func, param_list)
    /\ cmpc' = "constructed"
    /\ UNCHANGED packet

\* second half: __prepend_header
PrependHeader ==
    /\ cmpc = "constructed"
    /\ packet' = prepend_header(st)
    /\ cmpc' = "framed"
    /\ UNCHANGED <<message_args, st>>

\* The message was handed to ws.send: its texts are dropped.
MessageSent ==
    /\ cmpc = "framed"
    /\ cmpc' = "idle"
    /\ message_args' = [func |-> <<>>, param_list |-> <<>>]
    /\ st' = <<>>
    /\ packet' = <<>>

\* ------------------------------------------------------ session ids, letter by letter

stringLength == 12

\* The prefixes of the two generators: __generate_session and
\* __generate_chart_session
Prefixes == { <<"q", "s", "_">>, <<"c", "s", "_">> }

\* The letters random.choice(letters) is followed for: the first and the
\* last of letters.
Choices(letters) == { letters[1], letters[Len(letters)] }

\* range(stringLength) with one more element.
MoreLettersOneMore(joined) == Len(joined) <= stringLength

\* for i in range(stringLength): is there another i
MoreLetters(joined) == Len(joined) < stringLength

\* One of the two generators is called.
GenerateSessionCall ==
    /\ gpc = "idle"
    /\ \E prefix \in Prefixes : generator' = prefix
    /\ random_string' = <<>>
    /\ gpc' = "joining"
    /\ UNCHANGED generated

\* random.choice(letters) for the next i
RandomChoice ==
    /\ gpc = "joining"
    /\ MoreLetters(random_string)
    /\ \E letter \in Choices(ascii_lowercase) :
          random_string' = Append(random_string, letter)
    /\ UNCHANGED <<gpc, generator, generated>>

\* return "qs_" + random_string, or "cs_" + random_string
GenerateSessionReturn ==
    /\ gpc = "joining"
    /\ ~MoreLetters(random_string)
    /\ generated' = generator \o random_string
    /\ gpc' = "returned"
    /\ UNCHANGED <<generator, random_string>>

\* The caller has the id: the locals are gone.
SessionTaken ==
    /\ gpc = "returned"
    /\ gpc' = "idle"
    /\ generator' = <<>>
    /\ random_string' = <<>>
    /\ generated' = <<>>

\* ------------------------------------------------------ __create_df, step by step

programVars ==
    <<pc, callVars, attemptVars, transportVars, historyVars, observerVars,
      token, authVars, threadVars>>

\* __create_df(raw_data, symbol) up to its for loop: the search, whose
\* failure is the AttributeError of None.group, and the split.
CreateDfCall ==
    /\ dfpc = "idle"
    /\ parses < MaxParses
    /\ parses' = parses + 1
    /\ volumeLost' = (volumeLost \/ ~volume_data)
    /\ \E text \in Texts, symbol \in Symbols :
          /\ create_df_args' = [raw_data |-> text, symbol |-> symbol]
          /\ IF search(text) = None
             THEN /\ parsed' = Ended("AttributeError")
                  /\ dfpc' = "returned"
                  /\ x' = <<>>
             ELSE /\ parsed' = NotParsed
                  /\ dfpc' = "loop"
                  /\ x' = split(search(text))
    /\ data' = <<>>
    /\ volume_data' = TRUE

\* One iteration of for xi in x: the row is appended, or an exception ends
\* the call.
CreateDfRecord ==
    /\ dfpc = "loop"
    /\ Len(data) < Len(x)
    /\ LET xi == re_split(x[Len(data) + 1])
           r == Row(xi, volume_data)
       IN IF r.error = "none"
          THEN /\ data' = Append(data, r.row)
               /\ volume_data' = r.volume_data
               /\ UNCHANGED <<dfpc, parsed>>
          ELSE /\ parsed' = Ended(r.error)
               /\ dfpc' = "returned"
               /\ UNCHANGED <<data, volume_data>>
    /\ UNCHANGED <<create_df_args, x, parses, volumeLost>>

\* After the loop: the frame is built and returned.
CreateDfReturn ==
    /\ dfpc = "loop"
    /\ Len(data) = Len(x)
    /\ parsed' = [raised |-> "none", frame |-> Frame(data, create_df_args.symbol)]
    /\ dfpc' = "returned"
    /\ UNCHANGED <<create_df_args, x, data, volume_data, parses, volumeLost>>

\* The caller is done with the frame: the arguments and the lists of the
\* call are dropped.  (volume_data keeps the value the call left until the
\* next call assigns it.)
CreateDfDropped ==
    /\ dfpc = "returned"
    /\ dfpc' = "idle"
    /\ create_df_args' = [raw_data |-> <<>>, symbol |-> <<>>]
    /\ x' = <<>>
    /\ data' = <<>>
    /\ parsed' = NotParsed
    /\ UNCHANGED <<volume_data, parses, volumeLost>>

NextParse ==
    \/ CreateDfCall /\ UNCHANGED <<programVars, codecVars, sessionVars, besideVars>>
    \/ CreateDfRecord /\ UNCHANGED <<programVars, codecVars, sessionVars, besideVars>>
    \/ CreateDfReturn /\ UNCHANGED <<programVars, codecVars, sessionVars, besideVars>>
    \/ CreateDfDropped /\ UNCHANGED <<programVars, codecVars, sessionVars, besideVars>>

SpecParse == Init /\ [][NextParse]_vars

NextCodec ==
    \/ ConstructMessage /\ UNCHANGED <<programVars, parseVars, sessionVars, besideVars>>
    \/ PrependHeader /\ UNCHANGED <<programVars, parseVars, sessionVars, besideVars>>
    \/ MessageSent /\ UNCHANGED <<programVars, parseVars, sessionVars, besideVars>>

SpecCodec == Init /\ [][NextCodec]_vars

NextSession ==
    \/ GenerateSessionCall /\ UNCHANGED <<programVars, parseVars, codecVars, besideVars>>
    \/ RandomChoice /\ UNCHANGED <<programVars, parseVars, codecVars, besideVars>>
    \/ GenerateSessionReturn /\ UNCHANGED <<programVars, parseVars, codecVars, besideVars>>
    \/ SessionTaken /\ UNCHANGED <<programVars, parseVars, codecVars, besideVars>>

SpecSession == Init /\ [][NextSession]_vars

\* ------------------------------------------------------ run, two variants

\* Largest max_retries argument followed.
MaxRetries == 3

\* What the parts followed beside the program leave alone
aloneVars == <<programVars, parseVars, codecVars, sessionVars>>

\* Both threads as constructed, with the same arguments, and started: run
\* has set results = {} and failed_symbols = [] and is at the head of its
\* first for loop.
Started ==
    [pc |-> "pass1", results |-> <<>>, failed_symbols |-> <<>>,
     new_failed |-> <<>>, i |-> 0, attempt |-> 0, retry_round |-> 0,
     fetches |-> 0]

VariantsStarted ==
    /\ given_max_retries \in 0..MaxRetries
    /\ batch \in SymbolLists
    /\ dataRun = Started
    /\ testRun = Started

InitVariants ==
    /\ NothingCalled /\ Anonymous /\ NoThread /\ NoProgress
    /\ NoParse /\ NoMessage /\ NoneGenerated
    /\ VariantsStarted /\ NoWindow /\ NotCalled

\* for symbol in self.symbols (pass 1), for symbol in failed_symbols (a retry
\* round): the list the for loop iterates over
Iterated(run) == IF run.pc = "pass1" THEN batch ELSE run.failed_symbols

\* for attempt in range(self.max_retries), in pass 1 and in a retry round:
\* run is about to call get_hist
AtCall(run) ==
    /\ run.pc \in {"pass1", "round"}
    /\ run.i < Len(Iterated(run))
    /\ run.attempt < given_max_retries

\* symbol=symbol of the get_hist call
Callee(run) == Iterated(run)[run.i + 1]

\* The get_hist call and what follows it up to the head of the attempt
\* loop: a frame with rows is stored (named by the call that returned it),
\* success = True, break; anything else, an exception included, is logged
\* and followed by time.sleep.
Fetched(run, r) ==
    IF Stored(r)
    THEN [run EXCEPT !.results = Store(run.results, Callee(run), run.fetches + 1),
                     !.i = run.i + 1,
                     !.attempt = 0,
                     !.fetches = run.fetches + 1]
    ELSE [run EXCEPT !.attempt = run.attempt + 1,
                     !.fetches = run.fetches + 1]

\* if not success: failed_symbols.append(symbol) in pass 1,
\* new_failed.append(symbol) in a retry round, after the attempt loop has
\* run out; then the next symbol
Exhausted(run) ==
    IF run.pc = "pass1"
    THEN [run EXCEPT !.failed_symbols = KeepFailed(run.failed_symbols, Callee(run)),
                     !.i = run.i + 1,
                     !.attempt = 0]
    ELSE [run EXCEPT !.new_failed = KeepFailed(run.new_failed, Callee(run)),
                     !.i = run.i + 1,
                     !.attempt = 0]

\* retry_round = 1 after the for loop of pass 1
Pass1Over(run) == [run EXCEPT !.pc = "while", !.retry_round = 1, !.i = 0]

\* failed_symbols = new_failed; retry_round += 1 at the end of a retry round
RoundOver(run) ==
    [run EXCEPT !.failed_symbols = run.new_failed,
                !.retry_round = run.retry_round + 1,
                !.i = 0]

\* new_failed = [] at the start of a retry round
RoundBegins(run) ==
    [run EXCEPT !.pc = "round", !.new_failed = <<>>, !.i = 0, !.attempt = 0]

\* self.data_fetched.emit(results) after the while loop
Emitted(run) == [run EXCEPT !.pc = "ended"]

\* The while test of data.py with one round less.
WhileDataOneLess(failed, round, bound) == failed # <<>> /\ round < bound

\* while failed_symbols and retry_round <= self.max_retries (data.py)
WhileData(failed, round, bound) == failed # <<>> /\ round <= bound

\* while failed_symbols (test.py)
WhileTest(failed) == failed # <<>>

\* if retry_round > self.max_retries: break (test.py)
BreakTest(round, bound) == round > bound

\* One step of run of data.py that is no get_hist call.
DataStepped(run) ==
    CASE run.pc = "pass1" /\ run.i = Len(batch) -> Pass1Over(run)
      [] run.pc = "round" /\ run.i = Len(run.failed_symbols) ->
            [RoundOver(run) EXCEPT !.pc = "while"]
      [] run.pc = "while" ->
            IF WhileData(run.failed_symbols, run.retry_round, given_max_retries)
            THEN RoundBegins(run)
            ELSE Emitted(run)
      [] OTHER -> Exhausted(run)

\* One step of run of test.py that is no get_hist call.
TestStepped(run) ==
    CASE run.pc = "pass1" /\ run.i = Len(batch) -> Pass1Over(run)
      [] run.pc = "round" /\ run.i = Len(run.failed_symbols) ->
            IF BreakTest(run.retry_round + 1, given_max_retries)
            THEN Emitted(RoundOver(run))
            ELSE [RoundOver(run) EXCEPT !.pc = "while"]
      [] run.pc = "while" ->
            IF WhileTest(run.failed_symbols)
            THEN RoundBegins(run)
            ELSE Emitted(run)
      [] OTHER -> Exhausted(run)

\* run of data.py goes on to its next get_hist call or to its end.
DataStep ==
    /\ dataRun.pc \in {"pass1", "while", "round"}
    /\ ~AtCall(dataRun)
    /\ dataRun' = DataStepped(dataRun)
    /\ UNCHANGED <<given_max_retries, batch, testRun>>

\* run of test.py goes on to its next get_hist call or to its end.
TestStep ==
    /\ testRun.pc \in {"pass1", "while", "round"}
    /\ ~AtCall(testRun)
    /\ testRun' = TestStepped(testRun)
    /\ UNCHANGED <<given_max_retries, batch, dataRun>>

\* Both variants make their next get_hist call, and the calls end alike:
\* the n-th call of the one and the n-th call of the other return the same
\* frame or raise the same exception.
BothFetch ==
    /\ AtCall(dataRun)
    /\ AtCall(testRun)
    /\ \E r \in FetchResults :
          /\ dataRun' = Fetched(dataRun, r)
          /\ testRun' = Fetched(testRun, r)
    /\ UNCHANGED <<given_max_retries, batch>>

NextVariants ==
    \/ DataStep /\ UNCHANGED <<aloneVars, windowVars, multipleVars>>
    \/ TestStep /\ UNCHANGED <<aloneVars, windowVars, multipleVars>>
    \/ BothFetch /\ UNCHANGED <<aloneVars, windowVars, multipleVars>>

SpecVariants == InitVariants /\ [][NextVariants]_vars

\* ------------------------------------------------------ MainWindow, data.py

\* Threads of one kind followed at a time.
MaxThreads == 2

\* self.exchanges = ["NSE", "AMEX", "SNP 500"], the items of exchange_combo
exchanges == <<"NSE", "AMEX", "SNP 500">>

\* seq without its k-th element
Without(seq, k) == SubSeq(seq, 1, k - 1) \o SubSeq(seq, k + 1, Len(seq))

\* d[key] = value of a dict
SetItem(d, key, value) ==
    [k \in (DOMAIN d) \cup {key} |-> IF k = key THEN value ELSE d[k]]

\* MainWindow() of data.py when it is shown: init_ui leaves every widget
\* enabled but export_button and hides the progress bar, and __init__ ends
\* with self.fetch_symbols("NSE").
Shown ==
    /\ enabled = {"fetch_button"}
    /\ progress_bar = FALSE
    /\ currentText = "NSE"
    /\ symbol_cache = <<>>
    /\ symbol_threads = <<"NSE">>
    /\ fetch_threads = <<>>
    /\ df_dict = FALSE

InitWindow ==
    /\ NothingCalled /\ Anonymous /\ NoThread /\ NoProgress
    /\ NoParse /\ NoMessage /\ NoneGenerated
    /\ NoVariants /\ Shown /\ NotCalled

\* fetch_symbols(exchange): the two setEnabled(False), then a new
\* SymbolFetchThread is started and assigned to self.symbol_thread.  A
\* thread that was running there goes on running: the frame of its run
\* holds it until get_symbols has returned and the signal is emitted.
FetchSymbols(exchange) ==
    /\ Len(symbol_threads) < MaxThreads
    /\ enabled' = enabled \ {"exchange_combo", "select_symbols_button"}
    /\ symbol_threads' = Append(symbol_threads, exchange)

\* The user picks another item of exchange_combo, which it lets them do
\* while it is enabled: currentTextChanged, on_exchange_changed(exchange).
OnExchangeChanged ==
    /\ "exchange_combo" \in enabled
    /\ \E exchange \in Range(exchanges) \ {currentText} :
          /\ currentText' = exchange
          /\ IF exchange \in Range(exchanges)
             THEN FetchSymbols(exchange)
             ELSE UNCHANGED <<enabled, symbol_threads>>
    /\ UNCHANGED <<progress_bar, symbol_cache, fetch_threads, df_dict>>

\* on_symbols_fetched(symbols): the list, here fetched, is stored under the
\* text that exchange_combo shows when the slot runs.  (The signal is
\* emitted with a list that is not empty, so the test of the slot never
\* returns.)
OnSymbolsFetched(fetched) ==
    /\ enabled' = enabled \cup {"exchange_combo", "select_symbols_button"}
    /\ symbol_cache' = SetItem(symbol_cache, currentText, fetched)

\* SymbolFetchThread.run comes to its end: get_symbols(self.exchange)
\* returned symbols and symbols_fetched is handled by on_symbols_fetched, or
\* it returned [] and error is handled by show_error, which changes no
\* widget.
SymbolFetchRun ==
    /\ \E k \in 1..Len(symbol_threads), found \in BOOLEAN :
          /\ symbol_threads' = Without(symbol_threads, k)
          /\ IF found
             THEN OnSymbolsFetched(symbol_threads[k])
             ELSE UNCHANGED <<enabled, symbol_cache>>
    /\ UNCHANGED <<progress_bar, currentText, fetch_threads, df_dict>>

\* fetch_data without fetch_button.setEnabled(False).
DisabledByFetchDataButtonLeft ==
    {"export_button", "select_symbols_button", "exchange_combo"}

\* The four setEnabled(False) of fetch_data
DisabledByFetchData ==
    {"fetch_button", "export_button", "select_symbols_button", "exchange_combo"}

\* reset_fetch_button: the widgets enabled after it, export_button only
\* when self.df_dict holds a frame
ResetFetchButton(widgets, has_frames) ==
    LET on == widgets \cup {"fetch_button", "select_symbols_button", "exchange_combo"}
    IN IF has_frames THEN on \cup {"export_button"} ELSE on \ {"export_button"}

\* A click on fetch_button, which it takes while it is enabled: fetch_data.
\* It returns early (no symbol, or dates that give no bar), or the try
\* statement raises and the handler calls reset_fetch_button, or the thread
\* is started.
FetchData ==
    /\ "fetch_button" \in enabled
    /\ \E way \in {"returns", "raises", "starts"} :
          CASE way = "returns" ->
                 UNCHANGED <<enabled, progress_bar, fetch_threads>>
            [] way = "raises" ->
                 /\ enabled' = ResetFetchButton(enabled \ DisabledByFetchData, df_dict)
                 /\ progress_bar' = FALSE
                 /\ UNCHANGED fetch_threads
            [] way = "starts" ->
                 /\ Len(fetch_threads) < MaxThreads
                 /\ enabled' = enabled \ DisabledByFetchData
                 /\ progress_bar' = TRUE
                 /\ fetch_threads' = Append(fetch_threads, "running")
    /\ UNCHANGED <<currentText, symbol_cache, symbol_threads, df_dict>>

\* on_data_fetched(df_dict)
OnDataFetched(has_frames) ==
    /\ df_dict' = has_frames
    /\ enabled' = IF has_frames
                  THEN enabled \cup {"export_button"}
                  ELSE enabled \ {"export_button"}

\* DataFetchThread.run comes to its end: data_fetched is handled by
\* on_data_fetched, or error by show_error.
DataFetchRun ==
    /\ \E k \in 1..Len(fetch_threads), emits \in {"frames", "nothing", "error"} :
          /\ fetch_threads[k] = "running"
          /\ fetch_threads' = [fetch_threads EXCEPT ![k] = "returned"]
          /\ IF emits = "error"
             THEN UNCHANGED <<df_dict, enabled>>
             ELSE OnDataFetched(emits = "frames")
    /\ UNCHANGED <<progress_bar, currentText, symbol_cache, symbol_threads>>

\* The finished signal of a DataFetchThread is handled: reset_fetch_button.
Finished ==
    /\ \E k \in 1..Len(fetch_threads) :
          /\ fetch_threads[k] = "returned"
          /\ fetch_threads' = Without(fetch_threads, k)
    /\ enabled' = ResetFetchButton(enabled, df_dict)
    /\ progress_bar' = FALSE
    /\ UNCHANGED <<currentText, symbol_cache, symbol_threads, df_dict>>

NextWindow ==
    \/ OnExchangeChanged /\ UNCHANGED <<aloneVars, variantVars, multipleVars>>
    \/ SymbolFetchRun /\ UNCHANGED <<aloneVars, variantVars, multipleVars>>
    \/ FetchData /\ UNCHANGED <<aloneVars, variantVars, multipleVars>>
    \/ DataFetchRun /\ UNCHANGED <<aloneVars, variantVars, multipleVars>>
    \/ Finished /\ UNCHANGED <<aloneVars, variantVars, multipleVars>>

SpecWindow == InitWindow /\ [][NextWindow]_vars

\* ------------------------------------------------------ MainWindow, test.py

\* What exchange_combo of test.py may show: it is editable, so besides its
\* items the text may be cleared.
ComboTexts == Range(exchanges) \cup {""}

\* MainWindow() of test.py when it is shown, as far as the symbol lists go:
\* __init__ ends with self.fetch_symbols("NSE"), and no widget is disabled
\* for the time of a symbol fetch.
TestShown ==
    /\ enabled = {"fetch_button", "exchange_combo"}
    /\ progress_bar = FALSE
    /\ currentText = "NSE"
    /\ symbol_cache = <<>>
    /\ symbol_threads = <<"NSE">>
    /\ fetch_threads = <<>>
    /\ df_dict = FALSE

InitTestWindow ==
    /\ NothingCalled /\ Anonymous /\ NoThread /\ NoProgress
    /\ NoParse /\ NoMessage /\ NoneGenerated
    /\ NoVariants /\ TestShown /\ NotCalled

\* if exchange in self.symbol_cache, at the head of fetch_symbols of test.py
TestCached(cache, exchange) == exchange \in DOMAIN cache

\* fetch_symbols(exchange) of test.py: a cached list is shown at once;
\* otherwise a new SymbolFetchThread is started and assigned to
\* self.symbol_thread.
TestFetchSymbols(exchange) ==
    IF TestCached(symbol_cache, exchange)
    THEN UNCHANGED symbol_threads
    ELSE /\ Len(symbol_threads) < MaxThreads
         /\ symbol_threads' = Append(symbol_threads, exchange)

\* The user changes the text of exchange_combo: currentTextChanged,
\* on_exchange_changed(exchange) of test.py.
TestOnExchangeChanged ==
    /\ \E exchange \in ComboTexts \ {currentText} :
          /\ currentText' = exchange
          /\ IF exchange # ""
             THEN TestFetchSymbols(exchange)
             ELSE UNCHANGED symbol_threads
    /\ UNCHANGED <<enabled, progress_bar, symbol_cache, fetch_threads, df_dict>>

\* on_symbols_fetched(symbols) of test.py
TestOnSymbolsFetched(fetched) ==
    symbol_cache' = SetItem(symbol_cache, currentText, fetched)

\* SymbolFetchThread.run of test.py comes to its end, with symbols that
\* on_symbols_fetched handles or with an error that show_error handles.
TestSymbolFetchRun ==
    /\ \E k \in 1..Len(symbol_threads), found \in BOOLEAN :
          /\ symbol_threads' = Without(symbol_threads, k)
          /\ IF found
             THEN TestOnSymbolsFetched(symbol_threads[k])
             ELSE UNCHANGED symbol_cache
    /\ UNCHANGED <<enabled, progress_bar, currentText, fetch_threads, df_dict>>

NextTestWindow ==
    \/ TestOnExchangeChanged /\ UNCHANGED <<aloneVars, variantVars, multipleVars>>
    \/ TestSymbolFetchRun /\ UNCHANGED <<aloneVars, variantVars, multipleVars>>

SpecTestWindow == InitTestWindow /\ [][NextTestWindow]_vars

\* ------------------------------------------------------ get_multiple_hist

\* The symbols a get_multiple_hist call may name, each the sequence of its
\* tokens
BatchSymbols == Symbols \cup { <<"BANKNIFTY">> }

\* symbols, the argument of get_multiple_hist: any list, repeats included
BatchLists == UNION { [1..n -> BatchSymbols] : n \in 0..MaxSymbols }

\* What a get_hist call that returns gives: a frame with rows, or the
\* empty frame after its last attempt failed
Frames == { "nonempty", "empty" }

\* get_multiple_hist(symbols, exchange, fut_contract=fut_contract) up to the
\* head of its for loop: results = {}
GetMultipleHist ==
    /\ mhpc = "loop"
    /\ multiple_args \in [symbols : BatchLists, fut_contract : Contracts]
    /\ multiple_results = <<>>
    /\ multiple_calls = <<>>

InitMultiple ==
    /\ NothingCalled /\ Anonymous /\ NoThread /\ NoProgress
    /\ NoParse /\ NoMessage /\ NoneGenerated
    /\ NoVariants /\ NoWindow /\ GetMultipleHist

\* An empty frame left out of results, as DataFetchThread.run does.
MultipleStoreRowsOnly(res, symbol, df) ==
    IF df = "nonempty" THEN SetItem(res, symbol, df) ELSE res

\* results[symbol] = df
MultipleStore(res, symbol, df) == SetItem(res, symbol, df)

\* One iteration of the for loop: the get_hist call for the next symbol,
\* whose frame is stored whatever it holds, then time.sleep(2) when there
\* is more than one symbol.  get_hist raises when __format_symbol does, and
\* nothing in get_multiple_hist catches that.
MultipleFetch ==
    /\ mhpc = "loop"
    /\ Len(multiple_calls) < Len(multiple_args.symbols)
    /\ LET symbol == multiple_args.symbols[Len(multiple_calls) + 1]
       IN IF format_symbol_raises(symbol, multiple_args.fut_contract)
          THEN /\ mhpc' = "raised"
               /\ multiple_calls' =
                     Append(multiple_calls, [symbol |-> symbol, df |-> "ValueError"])
               /\ UNCHANGED multiple_results
          ELSE \E df \in Frames :
                  /\ multiple_results' = MultipleStore(multiple_results, symbol, df)
                  /\ multiple_calls' =
                        Append(multiple_calls, [symbol |-> symbol, df |-> df])
                  /\ UNCHANGED mhpc
    /\ UNCHANGED multiple_args

\* return results after the for loop
MultipleReturn ==
    /\ mhpc = "loop"
    /\ Len(multiple_calls) = Len(multiple_args.symbols)
    /\ mhpc' = "returned"
    /\ UNCHANGED <<multiple_args, multiple_results, multiple_calls>>

NextMultiple ==
    \/ MultipleFetch /\ UNCHANGED <<aloneVars, variantVars, windowVars>>
    \/ MultipleReturn /\ UNCHANGED <<aloneVars, variantVars, windowVars>>

SpecMultiple == InitMultiple /\ [][NextMultiple]_vars

\* ================================================================== claims

\* ------------------------------------------------------------------ C1
\* C1 as stated: if every WebSocket open fails, a get_hist call performs
\* exactly max_retries opens in total and then returns an empty frame.
\* (Stated for the calls that reach the attempt loop.)
C1_ExactlyMaxRetriesOpens ==
    (pc = "done" /\ outcome # "raised" /\ everyOpenFailed)
        => (opens = max_retries /\ outcome = "empty")

\* C1 as amended: the opens of one call never exceed max_retries *
\* max_retries, and if every open fails, a get_hist call that reached its
\* attempt loop has performed exactly max_retries * max_retries opens
\* (max_retries tries of __create_connection in each of max_retries attempts)
\* when it ends, and it ends returning an empty frame.
C1_OpensAreRetriesSquared ==
    /\ opens <= max_retries * max_retries
    /\ (pc = "done" /\ outcome # "raised" /\ everyOpenFailed)
          => (opens = max_retries * max_retries /\ outcome = "empty")

\* A call ended in which all nine opens failed.
C1_Witness ==
    /\ pc = "done"
    /\ everyOpenFailed
    /\ opens = 9
    /\ outcome = "empty"

\* ------------------------------------------------------------------ C2
\* C2: no session id is sent, in chart_create_session or
\* quote_create_session, by two attempts.
C2_SessionIdPerAttempt ==
    \A id \in DOMAIN idUses : idUses[id] <= 1

\* ------------------------------------------------------------------ C3
\* C3: close is invoked exactly once on every connection that was opened:
\* never a second time, and a connection on which it was not invoked yet is
\* the one of the attempt in progress.
C3_ClosedExactlyOnce ==
    \A c \in 1..Len(conns) :
        /\ conns[c] # "closed_again"
        /\ conns[c] = "open" =>
              (c = attemptConn /\ pc \in {"send", "recv", "finally"})

\* ------------------------------------------------------------------ C4
\* C4: no call of get_hist ends by raising: a call that has ended gave its
\* caller a non-empty or an empty frame.
C4_NeverRaises ==
    pc = "done" => outcome \in {"nonempty", "empty"}

\* ------------------------------------------------------------------ C5
\* C5: in every attempt the messages sent are, in this order, the nine
\* handshake functions (what has been sent so far is always a prefix of the
\* nine); a message is sent only on the connection this attempt opened, while
\* it is open; and the read loop is entered, and a message received, only
\* after all nine were sent.
C5_HandshakeOrder ==
    LET order == << "set_auth_token", "chart_create_session",
                    "quote_create_session", "quote_set_fields",
                    "quote_add_symbols", "quote_fast_symbols",
                    "resolve_symbol", "create_series", "switch_timezone" >>
    IN /\ Len(sent) <= Len(order)
       /\ \A i \in 1..Len(sent) : sent[i].m = order[i]
       /\ pc = "send" => (attemptConn # 0 /\ ws = attemptConn /\ conns[ws] = "open")
       /\ sent # <<>> => (attemptConn # 0 /\ ws = attemptConn)
       /\ pc = "recv" => (Len(sent) = Len(order) /\ conns[ws] = "open")
       /\ (lastResult # "none" \/ attemptEnd \in
              {"recv_raised", "parse_raised", "nonempty_parse", "empty_parse",
               "series_error", "bound"}) => Len(sent) = Len(order)

\* An attempt that sent all nine and then received a message.
C5_Witness ==
    /\ pc = "recv"
    /\ Len(sent) = 9
    /\ sent[9].m = "switch_timezone"
    /\ lastResult = "other"

\* ------------------------------------------------------------------ C6
\* C6: one get_hist call makes at most max_retries attempts; an attempt
\* whose parse is non-empty returns that frame and no further attempt of the
\* call is started; a call returns an empty frame only after max_retries
\* attempts, none of which returned.
C6_AttemptBound ==
    /\ [](/\ attempt < max_retries
          /\ attemptEnd = "nonempty_parse" =>
                (outcome = "nonempty" /\ pc \in {"finally", "done"})
          /\ (pc = "done" /\ outcome # "raised") =>
                \/ outcome = "nonempty" /\ attemptEnd = "nonempty_parse"
                \/ /\ outcome = "empty"
                   /\ attempt = max_retries - 1
                   /\ attemptEnd # "nonempty_parse")
    /\ [][(attemptEnd = "nonempty_parse" /\ calls' = calls) =>
              (attempt' = attempt /\ pc' = "done" /\ outcome' = "nonempty")]_vars

\* A call that returned the frame of its second attempt.
C6_Witness ==
    /\ pc = "done"
    /\ outcome = "nonempty"
    /\ attempt = 1

\* ------------------------------------------------------------------ C7
\* C7 as stated: when every attempt of a call ended on a message containing
\* series_error, the call returns an empty frame after exactly max_retries
\* attempts, and a failure was logged in each attempt.
C7_SeriesErrorAnswers ==
    (pc = "done" /\ outcome # "raised" /\ everyAnswerError)
        => (outcome = "empty" /\ attempt = max_retries - 1 /\ everyAttemptLogged)

\* C7 as amended: when every attempt of a call ended on a message containing
\* series_error and not series_completed, the call returns an empty frame
\* after exactly max_retries attempts, and a failure was logged in each
\* attempt.
C7_SeriesErrorOnlyAnswers ==
    (pc = "done" /\ outcome # "raised" /\ everyAnswerErrorOnly)
        => (outcome = "empty" /\ attempt = max_retries - 1 /\ everyAttemptLogged)

\* A call ended all of whose attempts were answered with series_error alone.
C7_Witness ==
    /\ pc = "done"
    /\ outcome = "empty"
    /\ everyAnswerErrorOnly
    /\ lastResult = "error"

\* ------------------------------------------------------------------ C8
\* C8: an attempt issues at most max_messages (100) receives, and none after
\* a message with series_completed or series_error was received or a receive
\* raised.
C8_ReadLoopStops ==
    /\ [](recvs <= 100)
    /\ [][stopped => recvs' <= recvs]_vars

\* The hundredth receive of an attempt brought a terminal marker.
C8_Witness ==
    /\ recvs = 100
    /\ stopped
    /\ pc = "finally"

\* ------------------------------------------------------------------ C9
\* C9: an attempt that received series_completed and whose parse is empty
\* does not return the empty frame; its finally clause closes the connection
\* and the call goes on to the next attempt, or, after the last attempt, to
\* the final empty result.
C9_EmptyParseFails ==
    /\ []((pc = "finally" /\ attemptEnd = "empty_parse") =>
              (outcome = "none" /\ conns[ws] = "open"))
    /\ [][(pc = "finally" /\ attemptEnd = "empty_parse") =>
              /\ conns'[ws] = "closed"
              /\ IF attempt < max_retries - 1
                 THEN pc' = "connect" /\ attempt' = attempt + 1 /\ outcome' = "none"
                 ELSE pc' = "done" /\ outcome' = "empty"]_vars

\* An attempt ended by an empty parse after series_completed.
C9_Witness ==
    /\ pc = "finally"
    /\ attemptEnd = "empty_parse"
    /\ lastResult \in {"completed", "both"}

\* ------------------------------------------------------------------ C10
\* C10: at most one connection is open; an open connection is the one
\* self.ws refers to, opened by the attempt in progress; and whenever an
\* attempt is about to open a connection, every connection opened before has
\* had close invoked on it.
C10_OneOpenConnection ==
    LET open == { c \in 1..Len(conns) : conns[c] = "open" }
    IN /\ Cardinality(open) <= 1
       /\ \A c \in open :
             c = ws /\ c = attemptConn /\ pc \in {"send", "recv", "finally"}
       /\ pc \in {"idle", "connect", "done"} => open = {}

\* A second call has a connection open after the first call's was closed.
C10_Witness ==
    /\ calls = 2
    /\ Len(conns) >= 2
    /\ conns[Len(conns)] = "open"
    /\ conns[1] # "open"

\* ------------------------------------------------------------------ C11
\* C11: run never lets an exception escape.  When it has ended it has
\* emitted exactly one signal, data_fetched or error, and none before; and a
\* get_hist call that returned an empty frame or raised is absorbed as a
\* failed attempt: the step of that call neither emits a signal nor ends
\* the batch.
C11_FailuresAbsorbed ==
    /\ [](rpc = "finished"
            => Len(signals) = 1 /\ signals[1] \in {"data_fetched", "error"})
    /\ [](rpc # "finished" => signals = <<>>)
    /\ [][(lastFetch' # lastFetch /\ lastFetch'.result # "nonempty")
            => (rpc' \in {"pass1", "while", "round"} /\ signals' = <<>>)]_vars

\* A batch that ended with data_fetched, and with a frame in results, after
\* a last get_hist call that raised.
C11_Witness ==
    /\ rpc = "finished"
    /\ signals = <<"data_fetched">>
    /\ lastFetch.result = "raised"
    /\ DOMAIN results # {}

C13_RetryRounds ==
    /\ [](lastFetch.round <= thread_max_retries)
    /\ [][lastFetch' # lastFetch
            => /\ lastFetch'.symbol \notin DOMAIN results
               /\ lastFetch'.round > 0 => lastFetch'.symbol \in Range(pending)]_vars
    /\ [][\A s \in DOMAIN results :
            s \in DOMAIN results' /\ results'[s] = results[s]]_vars
    /\ [][(rpc = "while" /\ rpc' = "round") => failed_symbols # <<>>]_vars

\* A batch that finished after a get_hist call of retry round 3, with a
\* symbol in results that an earlier pass had fetched.
C13_Witness ==
    /\ rpc = "finished"
    /\ lastFetch.round = thread_max_retries
    /\ \E s \in DOMAIN results : results[s] < thread_max_retries

\* ------------------------------------------------------------------ C14
\* C14: if every input symbol either got its frame in pass 1, or failed
\* pass 1 and got its frame in retry round 1, the run ends with data_fetched,
\* results holding every input symbol, an empty failure list, and no retry
\* round 2 started.
C14_Convergence ==
    (/\ rpc = "finished"
     /\ \A s \in Range(symbols) :
           /\ s \in DOMAIN framed
           /\ framed[s] <= 1
           /\ framed[s] = 1 <=> s \in Range(firstFailed))
        => /\ signals = <<"data_fetched">>
           /\ DOMAIN results = Range(symbols)
           /\ failed_symbols = <<>>
           /\ lastFetch.round <= 1
           /\ retry_round <= 2

\* A batch that finished with some symbols fetched in pass 1 and the others,
\* having failed pass 1, fetched in retry round 1.
C14_Witness ==
    /\ rpc = "finished"
    /\ firstFailed # <<>>
    /\ Len(firstFailed) < Len(symbols)
    /\ \A s \in Range(symbols) : s \in DOMAIN framed /\ framed[s] <= 1

\* ------------------------------------------------------------------ C15
\* a holds elements of b only, in the order b has them
InOrderOf(a, b) ==
    /\ Range(a) \subseteq Range(b)
    /\ \A i, j \in 1..Len(a) : i < j => IndexIn(b, a[i]) < IndexIn(b, a[j])

\* C15: the symbols fetched in a pass are, in order, the first ones of the
\* list the pass iterates over, and all of it when the pass is over; in pass
\* 1 that list is the input list; in retry round 1 it is the symbols in the
\* order in which their pass 1 failed, and in every later round it holds
\* pending symbols in that same relative order.
C15_FetchOrder ==
    /\ Len(passFetched) <= Len(pending)
    /\ \A i \in 1..Len(passFetched) : passFetched[i] = pending[i]
    /\ rpc \in {"while", "finished"} => passFetched = pending
    /\ rpc = "pass1" => pending = symbols
    /\ (rpc = "round" /\ retry_round = 1) => pending = firstFailed
    /\ rpc = "round" => InOrderOf(pending, firstFailed)
    /\ InOrderOf(firstFailed, symbols)

\* Retry round 2 having fetched two symbols.
C15_Witness ==
    /\ rpc = "while"
    /\ retry_round = 3
    /\ Len(passFetched) >= 2

\* ------------------------------------------------------------------ C16
\* C16: once cancellation has been signalled, no get_hist call for a further
\* symbol is started (a call for another symbol than the last call's, or in
\* another pass).
C16_CancelHonoured ==
    [][(interruptionRequested /\ lastFetch' # lastFetch)
         => /\ lastFetch'.symbol = lastFetch.symbol
            /\ lastFetch'.round = lastFetch.round]_vars

\* ------------------------------------------------------------------ C17
\* C17: in pass 1, when the get_hist calls of one symbol are over and the
\* first call of the next symbol is about to start, time.sleep has run since
\* the last call returned.
C17_DelayBetweenSymbols ==
    (rpc = "pass1" /\ idx > 0 /\ fetch_attempt = 0) => slept

\* ------------------------------------------------------------------ C18
\* C18: after the k-th of n symbols of pass 1 exactly one progress value has
\* been emitted for each processed symbol, the k-th being k/n as a whole
\* percentage (100 * k / n without its fraction); the values are
\* nondecreasing and the last one is 100.
C18_ProgressIsPercentage ==
    /\ Len(emitted) = processed_symbols
    /\ \A k \in 1..Len(emitted) : emitted[k] = (100 * k) \div total_symbols
    /\ \A k \in 1..(Len(emitted) - 1) : emitted[k] <= emitted[k + 1]
    /\ processed_symbols = total_symbols => emitted[Len(emitted)] = 100

\* ------------------------------------------------------------------ C19
\* C19: a constructor called without a username or without a password ends
\* at once, having made no login request, with token the anonymous
\* sentinel; no login request is ever made without both; once the instance
\* is constructed its token is not None and never changes; and every
\* set_auth_token message sent carries that token.
C19_AnonymousWithoutCredentials ==
    /\ [][(apc = "new" /\ apc' # "new"
             /\ ~(credentials'.username /\ credentials'.password))
            => /\ apc' = "constructed"
               /\ login_requests' = 0
               /\ token' = anonymous_token]_vars
    /\ [][login_requests' > login_requests
            => (credentials.username /\ credentials.password)]_vars
    /\ [](apc = "constructed" => token # None)
    /\ [][apc = "constructed" => token' = token]_vars
    /\ [](\A i \in 1..Len(sent) :
            sent[i].m = "set_auth_token" => (sent[i].p = <<token>> /\ token # None))

\* An instance constructed with a username and no password.
C19_Witness ==
    /\ apc = "constructed"
    /\ credentials.username
    /\ ~credentials.password
    /\ login_requests = 0
    /\ token = anonymous_token

\* ------------------------------------------------------------------ C20
\* C20: with credentials, __auth makes at most max_retries login requests;
\* the request that returns status 200 with a token is the last one and its
\* token becomes self.token; a failed request (another status, an exception,
\* a malformed body) is followed by another unless it was request
\* max_retries, after which the constructor completes; and a constructor
\* that completes without a token from the server leaves the anonymous
\* sentinel.
C20_BoundedLogin ==
    /\ [](login_requests <= max_retries)
    /\ [][(login_requests' > login_requests /\ lastResponse' = "token")
            => (apc' = "constructed" /\ token' = server_token)]_vars
    /\ [][apc = "constructed" => login_requests' <= login_requests]_vars
    /\ [][(login_requests' > login_requests
             /\ lastResponse' \in {"malformed", "status", "raises"})
            => apc' = (IF login_requests' = max_retries
                       THEN "constructed" ELSE "auth")]_vars
    /\ [][(apc = "auth" /\ apc' = "constructed" /\ lastResponse' # "token")
            => token' = anonymous_token]_vars

\* A constructor that completed after max_retries failed login requests,
\* the last of which raised.
C20_Witness ==
    /\ apc = "constructed"
    /\ login_requests = max_retries
    /\ lastResponse = "raises"
    /\ token = anonymous_token

\* ------------------------------------------------------------------ C21
\* C21: one __create_connection call makes at most max_retries tries; after
\* a try succeeded it makes no further try, and every try before it had
\* failed and was followed by a sleep; it raises only when max_retries tries
\* have failed, having slept after each of them but the last; and while it
\* is about to try again it has slept after every failed try so far.
C21_BoundedOpenTries ==
    /\ [](openTries <= max_retries)
    /\ [](attemptConn # 0 => (openTries >= 1 /\ openSleeps = openTries - 1))
    /\ [][attemptConn # 0 => openTries' <= openTries]_vars
    /\ [](attemptEnd = "open_failed"
            => /\ attemptConn = 0
               /\ openTries = max_retries
               /\ openSleeps = max_retries - 1)
    /\ [][(attemptEnd # "open_failed" /\ attemptEnd' = "open_failed")
            => (openTries = max_retries - 1 /\ openSleeps' = openSleeps)]_vars
    /\ [](pc = "connect"
            => (attemptConn = 0 /\ openTries < max_retries /\ openSleeps = openTries))

\* A __create_connection call that raised after three failed tries and two
\* sleeps.
C21_Witness ==
    /\ pc = "finally"
    /\ attemptEnd = "open_failed"
    /\ openTries = 3
    /\ openSleeps = 2

\* ------------------------------------------------------------------ C22
\* The volume token of record j of the call fails to parse
VolumeFails(j) ==
    ~(Has(re_split(x[j]), 9) /\ is_float(At(re_split(x[j]), 9)))

\* C22: in every __create_df call, whatever an earlier call did, a row made
\* before any record's volume token (position 9) failed to parse holds its
\* record's parsed volume, and the row of the first record whose volume
\* token failed and every later row hold 0.0, whatever their volume token
\* is; the frame returned holds these rows; and the volume raises nothing:
\* a call ends without a row for each chunk only on a record whose
\* timestamp token (position 4) is missing or not a number.
C22_VolumeSticky ==
    /\ \A k \in 1..Len(data) :
          data[k].volume = IF \E j \in 1..k : VolumeFails(j)
                           THEN 0
                           ELSE to_float(At(re_split(x[k]), 9))
    /\ dfpc = "loop" => (volume_data <=> \A j \in 1..Len(data) : ~VolumeFails(j))
    /\ (dfpc = "returned" /\ x # <<>>)
          => IF Len(data) = Len(x)
             THEN /\ parsed.raised = "none"
                  /\ Len(parsed.frame) = Len(data)
                  /\ \A k \in 1..Len(data) : parsed.frame[k].volume = data[k].volume
             ELSE LET xi == re_split(x[Len(data) + 1])
                  IN ~Has(xi, 4) \/ ~is_float(At(xi, 4))

\* A second call, after a call that lost its volume, returned three rows:
\* the first with its volume, the second without a volume token, the third
\* with a volume token that is a number and with volume 0.0.
C22_Witness ==
    /\ dfpc = "returned"
    /\ volumeLost
    /\ Len(parsed.frame) = 3
    /\ parsed.frame[1].volume = 7
    /\ VolumeFails(2)
    /\ parsed.frame[2].volume = 0
    /\ At(re_split(x[3]), 9) = <<"9">>
    /\ parsed.frame[3].volume = 0

\* ------------------------------------------------------------------ C23
\* C23: a __create_df call on a bar array whose records all have their six
\* values, whatever the values are, raises nothing and returns a frame with
\* one row for each record chunk.
C23_FieldErrorsNeverAbort ==
    (/\ dfpc = "returned"
     /\ x # <<>>
     /\ \A j \in 1..Len(x) : Has(re_split(x[j]), 9))
        => (parsed.raised = "none" /\ Len(parsed.frame) = Len(x))

\* ------------------------------------------------------------------ C24
\* C24: a __create_df call on a text in which the search finds no bar array
\* raises nothing and returns the empty frame, having made no row.
C24_NoMatchGivesEmpty ==
    (dfpc = "returned" /\ search(create_df_args.raw_data) = None)
        => /\ parsed.raised = "none"
           /\ parsed.frame = EmptyFrame
           /\ data = <<>>

\* A call returned on the text of a message that holds series_completed and
\* no bar array.
C24_Witness ==
    /\ dfpc = "returned"
    /\ create_df_args.raw_data = <<"{", "m", ":", "series_completed", "}", NL>>
    /\ parsed = [raised |-> "none", frame |-> EmptyFrame]

\* The bar that a well-formed record stands for, tagged with a symbol
Bar(values, symbol) ==
    [symbol |-> symbol,
     datetime |-> fromtimestamp(FloatTable[values[1]]),
     open |-> FloatTable[values[2]], high |-> FloatTable[values[3]],
     low |-> FloatTable[values[4]], close |-> FloatTable[values[5]],
     volume |-> FloatTable[values[6]]]

\* C25: when, in the first attempt, the transport has delivered a bar array
\* of n well-formed records and delivers series_completed, get_hist parses a
\* non-empty frame and returns it without another attempt; the frame has
\* exactly n rows, row k is the bar of record k of the stream (the order of
\* the stream, repetitions kept), and every row carries formatted_symbol,
\* which for a symbol without a contract is the symbol as requested.
C25_BarsInStreamOrder ==
    /\ [][(/\ pc = "recv" /\ attempt = 0 /\ raw_data = "bars"
            /\ lastResult' \in {"completed", "both"})
           => (outcome' = "nonempty" /\ pc' = "finally" /\ attempt' = 0)]_vars
    /\ [][(pc = "finally" /\ outcome = "nonempty")
           => (pc' = "done" /\ outcome' = "nonempty" /\ attempt' = attempt)]_vars
    /\ []((pc = "done" /\ outcome = "nonempty")
           => /\ Len(stream) >= 1
              /\ Len(frame) = Len(stream)
              /\ \A k \in 1..Len(stream) :
                    frame[k] = Bar(stream[k], formatted_symbol))
    /\ [][\A symbol \in Symbols, exchange \in Exchanges :
             GetHist(symbol, exchange, [kind |-> "none", v |-> 0])
                => formatted_symbol' = symbol]_vars

\* A call that returned, from its first attempt, the three bars of a stream
\* that was neither sorted nor free of repetitions.
C25_Witness ==
    /\ pc = "done"
    /\ outcome = "nonempty"
    /\ attempt = 0
    /\ lastResult = "completed"
    /\ formatted_symbol = <<"NIFTY">>
    /\ stream = << <<"200", "4", "3", "2", "1", "9">>,
                   <<"100", "1", "2", "3", "4", "7">>,
                   <<"100", "1", "2", "3", "4", "7">> >>
    /\ Len(frame) = 3
    /\ frame[1].datetime = fromtimestamp(200)
    /\ frame[2] = frame[3]

\* The symbols that a list of sent messages carries: parameter 2 of
\* quote_add_symbols and of quote_fast_symbols, the symbol of resolve_symbol
SentSymbols(messages) ==
    { messages[k].p[2] :
        k \in { j \in 1..Len(messages) :
                  messages[j].m \in {"quote_add_symbols", "quote_fast_symbols"} } }
      \cup { messages[k].p[3].symbol :
               k \in { j \in 1..Len(messages) : messages[j].m = "resolve_symbol" } }

\* C26: a call get_hist(symbol, exchange, fut_contract) whose symbol holds
\* ":" sets the symbol to send to the symbol itself, whatever the contract;
\* otherwise, with contract index k, to the symbol followed by k and "!";
\* otherwise, without a contract, to the symbol itself (a contract that is
\* neither makes the call raise before anything is sent); the exchange is
\* in the symbol to send only where the caller wrote it into the symbol; the
\* symbol to send does not change during the call, and every
\* quote_add_symbols, quote_fast_symbols and resolve_symbol sent carries it.
C26_SymbolSentAsFormatted ==
    /\ [][\A symbol \in Symbols, exchange \in Exchanges, fut_contract \in Contracts :
             GetHist(symbol, exchange, fut_contract)
                => /\ (exchange \in Range(formatted_symbol')
                          => exchange \in Range(symbol))
                   /\ IF ":" \in Range(symbol)
                      THEN pc' = "connect" /\ formatted_symbol' = symbol
                      ELSE IF fut_contract.kind = "int"
                      THEN /\ pc' = "connect"
                           /\ formatted_symbol'
                                = symbol \o <<Str(fut_contract.v), "!">>
                      ELSE IF fut_contract.kind = "none"
                      THEN pc' = "connect" /\ formatted_symbol' = symbol
                      ELSE pc' = "done" /\ outcome' = "raised" /\ sent' = <<>>]_vars
    /\ [][pc \notin {"idle", "done"}
            => formatted_symbol' = formatted_symbol]_vars
    /\ [](SentSymbols(sent) \subseteq {formatted_symbol})
    /\ [](Len(sent) >= 7 => SentSymbols(sent) = {formatted_symbol})

\* An attempt that sent its nine messages for the symbol NIFTY with contract
\* index 1: the three messages that name the symbol carry NIFTY1!.
C26_Witness ==
    /\ Len(sent) = 9
    /\ sent[5].m = "quote_add_symbols"
    /\ sent[5].p[2] = <<"NIFTY", "1", "!">>
    /\ sent[6].p[2] = <<"NIFTY", "1", "!">>
    /\ sent[7].p[3].symbol = <<"NIFTY", "1", "!">>

\* The reader of a frame: where the second "~m~" starts in its bytes, the
\* number written between the two, and that many bytes after the second
HeaderEnd(bytes) ==
    Least({ q \in 4..(Len(bytes) - 2) :
              SubSeq(bytes, q, q + 2) = Text(<<"~", "m", "~">>) })

RECURSIVE number(_)
number(digits) ==
    IF digits = <<>> THEN 0
    ELSE 10 * number(SubSeq(digits, 1, Len(digits) - 1))
           + (digits[Len(digits)] - 48)

Announced(bytes) == number(SubSeq(bytes, 4, HeaderEnd(bytes) - 1))

Decoded(bytes) ==
    SubSeq(bytes, HeaderEnd(bytes) + 3, HeaderEnd(bytes) + 2 + Announced(bytes))

\* C27: the text that __create_message returns for func and param_list is
\* "~m~", the decimal L, "~m~" and the payload, where the payload is the
\* compact JSON of {"m": func, "p": param_list} and L is the number of bytes
\* the payload has on the wire; a reader that takes L bytes after the
\* second "~m~" has the payload, all of it and nothing else.
C27_FrameRoundTrip ==
    cmpc = "framed"
       => /\ st = construct_message(message_args.func, message_args.param_list)
          /\ packet = Text(<<"~", "m", "~">>) \o int_str(Len(encode(st)))
                        \o Text(<<"~", "m", "~">>) \o st
          /\ Announced(encode(packet)) = Len(encode(st))
          /\ Decoded(encode(packet)) = encode(st)
          /\ HeaderEnd(encode(packet)) + 2 + Announced(encode(packet))
               = Len(encode(packet))

\* A frame whose function name is a 4-byte character and whose parameters
\* include a text that reads like a header and a text with a 3-byte
\* character: the payload is longer than ten bytes, so L has two digits.
C27_Witness ==
    /\ cmpc = "framed"
    /\ message_args.func = Text(<<"grin">>)
    /\ Len(message_args.param_list) = 2
    /\ message_args.param_list[1]
         = [kind |-> "str", v |-> Text(<<"~", "m", "~", "1", "~", "m", "~">>)]
    /\ message_args.param_list[2] = [kind |-> "str", v |-> Text(<<"euro", "a">>)]
    /\ Announced(encode(packet)) >= 10

\* C28: the id that __generate_session returns starts with qs_, the id that
\* __generate_chart_session returns starts with cs_; either has 15
\* characters, and the 12 after the prefix are lowercase letters a to z.
C28_SessionIdFormat ==
    gpc = "returned"
       => /\ Len(generated) = 15
          /\ SubSeq(generated, 1, 3) = generator
          /\ generator \in { <<"q", "s", "_">>, <<"c", "s", "_">> }
          /\ \A i \in 4..Len(generated) :
                /\ generated[i] \in Range(ascii_lowercase)
                /\ Ord(generated[i]) \in 97..122

\* A chart-session id that was returned, with both an a and a z among its
\* letters.
C28_Witness ==
    /\ gpc = "returned"
    /\ SubSeq(generated, 1, 3) = <<"c", "s", "_">>
    /\ generated[4] = "z"
    /\ generated[15] = "a"

\* C29: a send that raises ends the handshake where it stands and a receive
\* that raises ends the read loop: the step that records either failure
\* goes to the finally clause with the failure logged; from then on, in
\* that attempt, nothing more is sent and the call is not at a send or a
\* receive again, and no frame is returned from it; what follows is the end
\* of the call or a whole new attempt, which starts with nothing sent and
\* opens a connection that did not exist before, the old one closed.
C29_FailureEndsAttempt ==
    /\ [][(attemptEnd' = "send_failed" /\ attemptEnd # "send_failed")
            => /\ pc = "send" /\ pc' = "finally"
               /\ Len(sent) < 9 /\ sent' = sent
               /\ logged' = TRUE]_vars
    /\ [][(attemptEnd' = "recv_raised" /\ attemptEnd # "recv_raised")
            => /\ pc = "recv" /\ pc' = "finally"
               /\ sent' = sent
               /\ logged' = TRUE]_vars
    /\ [](attemptEnd \in {"send_failed", "recv_raised"}
            => /\ pc \in {"finally", "done"}
               /\ outcome \in {"none", "empty"}
               /\ attemptConn # 0)
    /\ [][(attemptEnd \in {"send_failed", "recv_raised"})
            => ( \/ /\ pc = "finally" /\ pc' = "done"
                    /\ sent' = sent /\ attempt' = attempt /\ calls' = calls
                    /\ conns'[attemptConn] # "open"
                 \/ /\ pc = "finally" /\ pc' = "connect"
                    /\ attempt' = attempt + 1 /\ calls' = calls
                    /\ sent' = <<>> /\ attemptConn' = 0
                    /\ attemptEnd' = "none"
                    /\ conns'[attemptConn] # "open"
                 \/ pc = "done" /\ calls' = calls + 1 )]_vars
    /\ [][(attemptConn = 0 /\ attemptConn' # 0)
            => /\ attemptConn' = Len(conns) + 1
               /\ ws' = attemptConn'
               /\ (conns'[attemptConn'] = "open")]_vars

\* The second attempt of a call, on its own connection, at the finally
\* clause after its fourth send raised: three messages were sent.
C29_Witness ==
    /\ pc = "finally"
    /\ attempt = 1
    /\ attemptEnd = "send_failed"
    /\ Len(sent) = 3
    /\ attemptConn = 2
    /\ conns[1] # "open"

\* C30: a get_hist call that was made returns (with a frame, with an empty
\* frame, or by raising), and a run that has begun finishes, having emitted
\* data_fetched or error as its last signal, whatever the transport does at
\* each open, send and receive, failing every time included.
C30_Terminates ==
    /\ (pc \in {"connect", "send", "recv", "finally"}) ~> (pc = "done")
    /\ [](pc = "done" => outcome \in {"nonempty", "empty", "raised"})
    /\ (rpc \in {"pass1", "while", "round"}) ~> (rpc = "finished")
    /\ [](rpc = "finished"
            => /\ signals # <<>>
               /\ signals[Len(signals)] \in {"data_fetched", "error"})

\* A thread that finished with a symbol failed in every round, or a call
\* that returned the empty frame after three attempts that could not open a
\* connection.
C30_Witness ==
    \/ /\ rpc = "finished"
       /\ failed_symbols # <<>>
       /\ retry_round = thread_max_retries + 1
    \/ /\ pc = "done"
       /\ outcome = "empty"
       /\ attempt = max_retries - 1
       /\ attemptEnd = "open_failed"
       /\ conns = <<>>

\* The sum of a sequence of counts
RECURSIVE Total(_)
Total(counts) == IF counts = <<>> THEN 0 ELSE Head(counts) + Total(Tail(counts))

\* C31: run calls get_hist for one symbol at most thread_max_retries times in
\* pass 1 and in each retry round, so at most
\* thread_max_retries * (1 + thread_max_retries) times in all; and when run
\* has ended, a symbol of the batch for which no call returned a frame with
\* rows was fetched thread_max_retries times in pass 1 and in each of the
\* thread_max_retries retry rounds, which is that many calls exactly.
C31_NestedRetryBound ==
    \A s \in Tickers :
        /\ \A p \in DOMAIN fetchCalls[s] : fetchCalls[s][p] <= thread_max_retries
        /\ Total(fetchCalls[s]) <= thread_max_retries * (1 + thread_max_retries)
        /\ (rpc = "finished" /\ s \in Range(symbols) /\ s \notin DOMAIN framed)
              => /\ \A p \in DOMAIN fetchCalls[s] :
                       fetchCalls[s][p] = thread_max_retries
                 /\ Total(fetchCalls[s]) = thread_max_retries * (1 + thread_max_retries)

\* A run that has ended, in which every fetch of one symbol failed, 12 calls
\* in all, while another symbol was stored after fewer calls.
C31_Witness ==
    /\ rpc = "finished"
    /\ signals = <<"data_fetched">>
    /\ \E s, t \in Range(symbols) :
          /\ s \notin DOMAIN framed
          /\ Total(fetchCalls[s]) = 12
          /\ t \in DOMAIN results
          /\ Total(fetchCalls[t]) \in 1..11

\* C32: in get_hist the sleep of the attempt loop runs once after an attempt
\* that is followed by another attempt, and runs neither after the last
\* attempt nor after an attempt that returns the frame; no other step of the
\* call is that sleep.  So the sleeps of a call are as many as the attempts
\* it has finished and gone on from, and a call that returns after
\* max_retries failed attempts has slept max_retries - 1 times.
C32_SleepBetweenAttempts ==
    /\ [](pc \in {"connect", "send", "recv", "finally"} => attemptSleeps = attempt)
    /\ []((pc = "done" /\ outcome = "empty") => attemptSleeps = max_retries - 1)
    /\ [][(pc = "finally" /\ pc' = "connect") => attemptSleeps' = attemptSleeps + 1]_vars
    /\ [][(pc = "finally" /\ pc' = "done") => attemptSleeps' = attemptSleeps]_vars
    /\ [][(pc \in {"connect", "send", "recv"}) => attemptSleeps' = attemptSleeps]_vars

\* A call that failed all its attempts has returned, after two sleeps.
C32_Witness ==
    /\ pc = "done"
    /\ outcome = "empty"
    /\ attempt = max_retries - 1
    /\ attemptSleeps = 2

\* C33: run of data.py and run of test.py, given the same symbols, the same
\* max_retries (0 included) and get_hist calls that end alike, make the same
\* get_hist calls: whenever both are about to call, it is the call with the
\* same number for the same symbol, and neither is about to call when the
\* other has ended.  When both have ended they emit the same results and
\* are left with the same failed_symbols.
C33_VariantsEquivalent ==
    /\ (AtCall(dataRun) /\ AtCall(testRun))
          => (Callee(dataRun) = Callee(testRun) /\ dataRun.fetches = testRun.fetches)
    /\ ~(AtCall(dataRun) /\ testRun.pc = "ended")
    /\ ~(AtCall(testRun) /\ dataRun.pc = "ended")
    /\ (dataRun.pc = "ended" /\ testRun.pc = "ended")
          => /\ dataRun.results = testRun.results
             /\ dataRun.failed_symbols = testRun.failed_symbols
             /\ dataRun.fetches = testRun.fetches

\* Both variants have ended after all their retry rounds, with a frame for
\* one symbol, fetched in a retry round, and another symbol still failed.
C33_Witness ==
    /\ dataRun.pc = "ended"
    /\ testRun.pc = "ended"
    /\ given_max_retries >= 2
    /\ dataRun.retry_round = given_max_retries + 1
    /\ testRun.failed_symbols # <<>>
    /\ \E s \in DOMAIN testRun.results : testRun.results[s] > given_max_retries * Len(batch)

\* C34: in the window of data.py at most one DataFetchThread has been
\* started whose finished signal is not yet handled, and as long as there is
\* one, fetch_button is disabled; a step that starts a thread starts it when
\* there is none.
C34_OneBatchAtATime ==
    /\ [](Len(fetch_threads) <= 1)
    /\ [](fetch_threads # <<>> => "fetch_button" \notin enabled)
    /\ [][Len(fetch_threads') > Len(fetch_threads) => fetch_threads = <<>>]_vars

\* A batch is running while a symbol fetch, which has just ended, enabled
\* the exchange combo again; the button is still disabled.
C34_Witness ==
    /\ fetch_threads = <<"running">>
    /\ "exchange_combo" \in enabled
    /\ "fetch_button" \notin enabled
    /\ df_dict

\* C35: every entry of symbol_cache holds the list that was fetched for the
\* exchange it is stored under.
C35_CacheKeyedByFetchedExchange ==
    \A exchange \in DOMAIN symbol_cache : symbol_cache[exchange] = exchange

\* The last get_hist call made for symbol s, by its place in multiple_calls
LastCall(s) ==
    CHOOSE k \in 1..Len(multiple_calls) :
        /\ multiple_calls[k].symbol = s
        /\ \A j \in (k + 1)..Len(multiple_calls) : multiple_calls[j].symbol # s

\* C36: get_multiple_hist calls get_hist for the symbols one at a time in
\* the order of its argument, and the k-th call is for the k-th symbol.
\* When it returns, it has made one call for every place of the list, the
\* keys of results are the symbols of the list, and each symbol maps to the
\* frame its last call returned, the empty frame of a failed fetch
\* included.  It ends without a result only when get_hist raised, which
\* needs a fut_contract that is neither None nor an int.
C36_MultipleInOrder ==
    /\ Len(multiple_calls) <= Len(multiple_args.symbols)
    /\ \A k \in 1..Len(multiple_calls) :
          multiple_calls[k].symbol = multiple_args.symbols[k]
    /\ mhpc = "returned"
          => /\ Len(multiple_calls) = Len(multiple_args.symbols)
             /\ DOMAIN multiple_results = Range(multiple_args.symbols)
             /\ \A s \in Range(multiple_args.symbols) :
                   /\ multiple_results[s] = multiple_calls[LastCall(s)].df
                   /\ multiple_results[s] \in Frames
    /\ mhpc = "raised" => multiple_args.fut_contract.kind \notin {"none", "int"}

\* A call with three symbols, one of them named twice, has returned; the
\* fetch of one symbol failed and its key holds the empty frame.
C36_Witness ==
    /\ mhpc = "returned"
    /\ Len(multiple_args.symbols) = 3
    /\ Cardinality(Range(multiple_args.symbols)) = 2
    /\ \E s, t \in DOMAIN multiple_results :
          /\ multiple_results[s] = "empty"
          /\ multiple_results[t] = "nonempty"

====
